---- MODULE Spec2Model ----
(***************************************************************************)
(* The podcast generator's core, as a state machine.                       *)
(*                                                                         *)
(* Nine entry points of src are modelled:                                  *)
(*   entry = "run"      PodcastPipeline.run           (pipeline.py 66-319) *)
(*   entry = "audio"    generate_audio_for_script     (audio.py 143-246)   *)
(*   entry = "assemble" its sort and merge, entered with the chunks in     *)
(*                      any order                     (audio.py 227-246)   *)
(*   entry = "parse"    smart_parse_script            (parser.py 37-83)    *)
(*   entry = "segment"  generate_audio_segment        (audio.py 15-140)    *)
(*   entry = "fetch"    _fetch_task calling fetch_content_with_jina        *)
(*                             (pipeline.py 321-325, fetcher.py 9-70)      *)
(*   entry = "llm"      call_llm_api                  (llm.py 11-72)       *)
(*   entry = "log"      PodcastPipeline.log called by several threads,     *)
(*                      with the UI's log_callback registered              *)
(*                         (pipeline.py 55-59, streamlit_app.py 334-340)   *)
(*   entry = "save"     SupabaseStorage.save_podcast  (storage.py 25-138)  *)
(*                                                                         *)
(* A text given to the parser is a sequence of tokens; a speaker, a voice  *)
(* name or a turn's text is a sequence of characters.                      *)
(*                                                                         *)
(* PodcastPipeline.run, as written, never gets past the Writing stage:     *)
(* generate_unified_script (llm.py 117-198) returns None or one list of    *)
(* turns, and pipeline.py 210 unpacks that value into two names.  None     *)
(* raises TypeError, a list of length other than two raises ValueError,    *)
(* and a list of exactly two turns binds script_json to the second turn    *)
(* (a dict), so that pipeline.py 238 indexes a key string and raises       *)
(* TypeError.  Lines 239-319 of pipeline.py are therefore unreachable and  *)
(* have no action here; that includes the only calls of                    *)
(* generate_audio_parallel and merge_audio_segments (pipeline.py 257, 278), *)
(* two names pipeline.py 21 imports and src/core/audio.py does not define. *)
(***************************************************************************)
EXTENDS Integers, Sequences, FiniteSets, TLC

\* ---------------------------------------------------------------- bounds
MaxUrls == 3
MaxWorkers == 2
MaxTurns == 3

MaxItems == 2

\* ---------------------------------------------------------------- values
None == "None"

\* A string is a sequence of characters, so that strip() is computed.
IsSpace(c) == c = " "

RECURSIVE LStrip(_)
LStrip(s) == IF s # <<>> /\ IsSpace(Head(s)) THEN LStrip(Tail(s)) ELSE s

RECURSIVE RStrip(_)
RStrip(s) ==
    IF s # <<>> /\ IsSpace(s[Len(s)]) THEN RStrip(SubSeq(s, 1, Len(s) - 1)) ELSE s

Strip(s) == RStrip(LStrip(s))

\* Python truthiness of a str / list.
Truthy(s) == s # <<>>

ApiKeys == { <<>>, <<" ">>, <<"s", "k">> }

UrlName(i) == <<"u", i>>

UrlLists == { [k \in 1..n |-> UrlName(k - 1)] : n \in 0..MaxUrls }

\* ---------------------------------------------------------------- config
VARIABLES entry, api_key, urls, max_workers_jina, max_workers_llm

\* ---------------------------------------------------------- run's locals
VARIABLES pc, stats, fetchFut, fetched_data, anaFut, completed, analyses,
          script_ret, script_text, progress, result

\* ------------------------------------------ requests issued to the services
VARIABLES analysisCalls, scriptCalls, ttsCalls

\* ------------------------------------- generate_audio_for_script's locals
VARIABLES script_json, valid_segments, nextSeg, results, errors, full_track

\* ------------------------------------- smart_parse_script's input and return
VARIABLES raw_base, variant, raw_text, parse_ret

\* ------------------- generate_audio_segment's arguments, locals and return
VARIABLES seg_index, seg_text, seg_speaker, voice_name_host_a, voice_name_host_b,
          voice_id, attempt, seg_posts, last_error, seg_ret

\* ------------- the chunk list handed to the assembly (audio.py 227-246)
VARIABLES arrival

\* ------------- the requests of one call of generate_audio_segment,
\* fetch_content_with_jina (through _fetch_task) or call_llm_api: the outcome
\* of every request so far, and what the fetch task and the LLM call return
VARIABLES responses, fetch_index, fetch_ret, llm_ret

requestVars == << responses, fetch_index, fetch_ret, llm_ret >>

\* ------------- the threads of a run that log through PodcastPipeline.log
\* with the callback of streamlit_app.py registered: where each thread is in
\* log and log_callback, the thread that holds logs_lock, and the list logs
VARIABLES log_at, logs_lock, logs

logVars == << log_at, logs_lock, logs >>

\* ------------- SupabaseStorage.save_podcast: the wall clock, in seconds, and
\* the podcast ID of every call made so far
VARIABLES clock, saved

vars == << entry, api_key, urls, max_workers_jina, max_workers_llm,
           raw_base, variant, raw_text, parse_ret,
           seg_index, seg_text, seg_speaker, voice_name_host_a, voice_name_host_b,
           voice_id, attempt, seg_posts, last_error, seg_ret,
           pc, stats, fetchFut, fetched_data, anaFut, completed, analyses,
           script_ret, script_text, progress, result,
           analysisCalls, scriptCalls, ttsCalls,
           script_json, valid_segments, nextSeg, results, errors, full_track,
           arrival, responses, fetch_index, fetch_ret, llm_ret,
           log_at, logs_lock, logs, clock, saved >>

configVars == << entry, api_key, urls, max_workers_jina, max_workers_llm >>

parserVars == << raw_base, variant, raw_text, parse_ret >>

segmentVars == << seg_index, seg_text, seg_speaker, voice_name_host_a,
                 voice_name_host_b, voice_id, attempt, seg_posts, last_error, seg_ret >>

audioVars == << script_json, valid_segments, nextSeg, results, errors, full_track,
                ttsCalls >>

\* PodcastConfig.validate: (valid, error).
ErrNoApiKey == "please enter an API key"
ErrNoUrls == "please enter at least one URL"

validate(key, us) ==
    IF ~Truthy(key) \/ ~Truthy(Strip(key)) THEN << FALSE, ErrNoApiKey >>
    ELSE IF ~Truthy(us) THEN << FALSE, ErrNoUrls >>
    ELSE << TRUE, "" >>

\* ------------------------------------------------------- PipelineResult
EmptyStats == [k \in {} |-> 0]

\* A result built without its message: error_message keeps the default.
PipelineResultNoMessage(success, error_message, st) ==
    [kind |-> "returned", success |-> success, error_message |-> "",
     stats |-> st, exc |-> ""]

\* A result built without its stats: stats keeps the default, {}.
PipelineResultNoStats(success, error_message, st) ==
    [kind |-> "returned", success |-> success, error_message |-> error_message,
     stats |-> EmptyStats, exc |-> ""]

\* The dataclass defaults: error_message "", stats {} (set by __post_init__).
PipelineResult(success, error_message, st) ==
    [kind |-> "returned", success |-> success, error_message |-> error_message,
     stats |-> st, exc |-> ""]

Raised(exc) ==
    [kind |-> "raised", success |-> FALSE, error_message |-> "", stats |-> EmptyStats,
     exc |-> exc]

NoResult ==
    [kind |-> "none", success |-> FALSE, error_message |-> "", stats |-> EmptyStats,
     exc |-> ""]

ErrAllFetchFailed == "all links failed to fetch"
ErrAllAnalysisFailed == "all articles failed to analyze"

InitStats(us) ==
    [total_urls |-> Len(us), fetched |-> 0, analyzed |-> 0, script_lines |-> 0,
     audio_segments |-> 0]

\* ------------------------------------------------------------- helpers
Indices(items) == { items[k].index : k \in 1..Len(items) }

\* A future of a ThreadPoolExecutor: queued, running on a worker, finished
\* (result set), yielded by as_completed to the orchestrator's loop.
Fut(state, value) == [state |-> state, value |-> value]

Running(futs) == { i \in DOMAIN futs : futs[i].state = "running" }

AllYielded(futs) == \A i \in DOMAIN futs : futs[i].state = "yielded"

\* A pool that always has a worker to spare.
WorkerFreeAlways(futs, max_workers) == TRUE

\* ThreadPoolExecutor(max_workers=n): a queued task gets a worker only while
\* fewer than n tasks are running.
WorkerFree(futs, max_workers) == Cardinality(Running(futs)) < max_workers

\* A loop that is left at the first yielded future.
LoopOverOnFirst(futs) == \E i \in DOMAIN futs : futs[i].state = "yielded"

\* The loop `for future in as_completed(futures)` ends once every future
\* was yielded.
LoopOver(futs) == AllYielded(futs)

\* The test left out.
FetchExhaustedNever(items) == FALSE

\* run 144: `if not fetched_data:`
FetchExhausted(items) == ~Truthy(items)

\* The test left out.
AnalysisExhaustedNever(items) == FALSE

\* The test off by one: `if len(analyses) < 2:`.
AnalysisExhaustedBelowTwo(items) == Len(items) < 2

\* run 189: `if not analyses:`
AnalysisExhausted(items) == ~Truthy(items)

\* The sort with reverse=True.
RECURSIVE InsertByIndexDescending(_, _)
InsertByIndexDescending(x, s) ==
    IF s = <<>> THEN << x >>
    ELSE IF x.index > Head(s).index THEN << x >> \o s
    ELSE << Head(s) >> \o InsertByIndexDescending(x, Tail(s))

RECURSIVE SortByIndexDescending(_)
SortByIndexDescending(s) ==
    IF s = <<>> THEN <<>>
    ELSE InsertByIndexDescending(s[Len(s)], SortByIndexDescending(SubSeq(s, 1, Len(s) - 1)))

\* The list left in the order in which the tasks completed.
SortByIndexOmitted(s) == s

\* analyses.sort(key=lambda x: x[0]): a stable insertion sort on the index.
RECURSIVE InsertByIndex(_, _)
InsertByIndex(x, s) ==
    IF s = <<>> THEN << x >>
    ELSE IF x.index < Head(s).index THEN << x >> \o s
    ELSE << Head(s) >> \o InsertByIndex(x, Tail(s))

RECURSIVE SortByIndex(_)
SortByIndex(s) ==
    IF s = <<>> THEN <<>>
    ELSE InsertByIndex(s[Len(s)], SortByIndex(SubSeq(s, 1, Len(s) - 1)))

\* ------------------------------------------------------------- run 70-127
\* validate, the stats dict, update_progress("fetching", 0.0), and the
\* submission of one _fetch_task per URL.
RunStart ==
    /\ entry = "run" /\ pc = "idle"
    /\ LET v == validate(api_key, urls) IN
       IF ~v[1]
       THEN /\ result' = PipelineResult(FALSE, v[2], EmptyStats)
            /\ pc' = "done"
            /\ UNCHANGED << stats, progress, fetchFut >>
       ELSE /\ stats' = InitStats(urls)
            /\ progress' = Append(progress, << "fetching", 0, 1 >>)
            /\ fetchFut' = [i \in 0..(Len(urls) - 1) |-> Fut("pending", None)]
            /\ pc' = "fetching"
            /\ UNCHANGED result
    /\ UNCHANGED << configVars, logVars, clock, saved, arrival, requestVars, parserVars, segmentVars, fetched_data, anaFut, completed, analyses, script_ret,
                    script_text, analysisCalls, scriptCalls, audioVars >>

\* ----------------------------------------------------- the fetch tasks
\* The executor's work queue is FIFO: the next task to get a worker is the
\* earliest submitted one still queued, and at most max_workers run at once.
FetchTaskStart ==
    /\ entry = "run" /\ pc = "fetching"
    /\ WorkerFree(fetchFut, max_workers_jina)
    /\ \E i \in DOMAIN fetchFut :
        /\ fetchFut[i].state = "pending"
        /\ \A j \in DOMAIN fetchFut : j < i => fetchFut[j].state # "pending"
        /\ fetchFut' = [fetchFut EXCEPT ![i] = Fut("running", None)]
    /\ UNCHANGED << configVars, logVars, clock, saved, arrival, requestVars, parserVars, segmentVars, pc, stats, fetched_data, anaFut, completed, analyses,
                    script_ret, script_text, progress, result, analysisCalls,
                    scriptCalls, audioVars >>

\* _fetch_task returns (index, url, content): fetch_content_with_jina gives the
\* page text (never empty, fetcher.py 32-41) or None.
FetchContents == { None, "text" }

FetchTaskFinish ==
    /\ entry = "run" /\ pc = "fetching"
    /\ \E i \in Running(fetchFut), content \in FetchContents :
        fetchFut' = [fetchFut EXCEPT ![i] = Fut("finished", content)]
    /\ UNCHANGED << configVars, logVars, clock, saved, arrival, requestVars, parserVars, segmentVars, pc, stats, fetched_data, anaFut, completed, analyses,
                    script_ret, script_text, progress, result, analysisCalls,
                    scriptCalls, audioVars >>

\* Every item numbered 0.
ItemIndexZero(index, payload) == [index |-> 0, url |-> UrlName(index), payload |-> payload]

Item(index, payload) == [index |-> index, url |-> UrlName(index), payload |-> payload]

\* The test left out: every payload passes.
PresentAlways(payload) == TRUE

\* `if content:` / `if analysis:` : None (and an empty text) is falsy.
Present(payload) == payload # None

\* run 133-135, 182-184: a present payload is appended and counted.
Collected(items, index, payload) ==
    IF Present(payload) THEN Append(items, Item(index, payload)) ELSE items

\* A count that goes up for an absent payload too.
CountedAlways(count, payload) == count + 1

\* run 134, 183: the counter goes up with every payload appended.
Counted(count, payload) == IF Present(payload) THEN count + 1 ELSE count

\* run 129-138: one iteration of the as_completed loop.
FetchYield ==
    /\ entry = "run" /\ pc = "fetching"
    /\ \E i \in DOMAIN fetchFut :
        /\ fetchFut[i].state = "finished"
        /\ fetchFut' = [fetchFut EXCEPT ![i].state = "yielded"]
        /\ progress' = Append(progress, << "fetching", Len(fetched_data), Len(urls) >>)
        /\ fetched_data' = Collected(fetched_data, i, fetchFut[i].value)
        /\ stats' = [stats EXCEPT !.fetched = Counted(@, fetchFut[i].value)]
    /\ UNCHANGED << configVars, logVars, clock, saved, arrival, requestVars, parserVars, segmentVars, pc, anaFut, completed, analyses, script_ret,
                    script_text, result, analysisCalls, scriptCalls, audioVars >>

\* run 140-174: the loop is over once every future was yielded; then the
\* exhaustion test, and the submission of one analyze_article per fetched item.
FetchStageEnd ==
    /\ entry = "run" /\ pc = "fetching"
    /\ LoopOver(fetchFut)
    /\ IF FetchExhausted(fetched_data)
       THEN /\ progress' = Append(progress, << "fetching", 1, 1 >>)
            /\ result' = PipelineResult(FALSE, ErrAllFetchFailed, stats)
            /\ pc' = "done"
            /\ UNCHANGED anaFut
       ELSE /\ progress' = progress \o << << "fetching", 1, 1 >>, << "analyzing", 0, 1 >> >>
            /\ anaFut' = [i \in Indices(fetched_data) |-> Fut("pending", None)]
            /\ pc' = "analyzing"
            /\ UNCHANGED result
    /\ UNCHANGED << configVars, logVars, clock, saved, arrival, requestVars, parserVars, segmentVars, stats, fetchFut, fetched_data, completed, analyses,
                    script_ret, script_text, analysisCalls, scriptCalls, audioVars >>

\* -------------------------------------------------- the analysis tasks
\* Position of index i in the submission order (the order of fetched_data).
Position(items, i) == CHOOSE k \in 1..Len(items) : items[k].index = i

\* analyze_article up to its request: an empty text returns None at once
\* (llm.py 88-90), any other makes call_llm_api post one request.
AnaTaskStart ==
    /\ entry = "run" /\ pc = "analyzing"
    /\ WorkerFree(anaFut, max_workers_llm)
    /\ \E i \in DOMAIN anaFut :
        /\ anaFut[i].state = "pending"
        /\ \A j \in DOMAIN anaFut :
              Position(fetched_data, j) < Position(fetched_data, i)
                  => anaFut[j].state # "pending"
        /\ IF fetched_data[Position(fetched_data, i)].payload = None
           THEN /\ anaFut' = [anaFut EXCEPT ![i] = Fut("finished", None)]
                /\ UNCHANGED analysisCalls
           ELSE /\ anaFut' = [anaFut EXCEPT ![i] = Fut("running", None)]
                /\ analysisCalls' = analysisCalls \cup {i}
    /\ UNCHANGED << configVars, logVars, clock, saved, arrival, requestVars, parserVars, segmentVars, pc, stats, fetchFut, fetched_data, completed, analyses,
                    script_ret, script_text, progress, result, scriptCalls, audioVars >>

\* call_llm_api gives the model's text or None; analyze_article turns an
\* empty text into None (llm.py 107-109).
AnalysisOutputs == { None, "analysis" }

AnaTaskFinish ==
    /\ entry = "run" /\ pc = "analyzing"
    /\ \E i \in Running(anaFut), analysis \in AnalysisOutputs :
        anaFut' = [anaFut EXCEPT ![i] = Fut("finished", analysis)]
    /\ UNCHANGED << configVars, logVars, clock, saved, arrival, requestVars, parserVars, segmentVars, pc, stats, fetchFut, fetched_data, completed, analyses,
                    script_ret, script_text, progress, result, analysisCalls,
                    scriptCalls, audioVars >>

\* run 177-184.
AnaYield ==
    /\ entry = "run" /\ pc = "analyzing"
    /\ \E i \in DOMAIN anaFut :
        /\ anaFut[i].state = "finished"
        /\ anaFut' = [anaFut EXCEPT ![i].state = "yielded"]
        /\ completed' = completed + 1
        /\ progress' = Append(progress, << "analyzing", completed', Len(fetched_data) >>)
        /\ analyses' = Collected(analyses, i, anaFut[i].value)
        /\ stats' = [stats EXCEPT !.analyzed = Counted(@, anaFut[i].value)]
    /\ UNCHANGED << configVars, logVars, clock, saved, arrival, requestVars, parserVars, segmentVars, pc, fetchFut, fetched_data, script_ret, script_text,
                    result, analysisCalls, scriptCalls, audioVars >>

\* run 186-214 and llm.py 133-171: the exhaustion test, the sort, and
\* generate_unified_script up to its single request.
AnaStageEnd ==
    /\ entry = "run" /\ pc = "analyzing"
    /\ LoopOver(anaFut)
    /\ IF AnalysisExhausted(analyses)
       THEN /\ result' = PipelineResult(FALSE, ErrAllAnalysisFailed, stats)
            /\ pc' = "done"
            /\ UNCHANGED << progress, analyses, scriptCalls >>
       ELSE /\ progress' = Append(progress, << "writing", 0, 1 >>)
            /\ analyses' = SortByIndex(analyses)
            /\ scriptCalls' = scriptCalls + 1
            /\ pc' = "writing"
            /\ UNCHANGED result
    /\ UNCHANGED << configVars, logVars, clock, saved, arrival, requestVars, parserVars, segmentVars, stats, fetchFut, fetched_data, anaFut, completed,
                    script_ret, script_text, analysisCalls, audioVars >>

\* ------------------------------------------------------------ the script
Turn(speaker, text) == [speaker |-> speaker, text |-> text]

HostName(k) == IF k % 2 = 1 THEN "Host A" ELSE "Host B"

\* What smart_parse_script may give back for the model's text: a list of
\* zero or more turns.
ParsedScripts ==
    { [k \in 1..n |-> Turn(HostName(k), << "h", "i" >>)] : n \in 0..MaxTurns }

\* llm.py 173-198: None when the request failed or gave no text, None when the
\* parser recovered no turn, the list of turns otherwise.
\* The returned value is tagged: None, or a list.
NoScript == [none |-> TRUE, turns |-> << >>]

SomeScript(s) == [none |-> FALSE, turns |-> s]

UnifiedScriptReturns == { NoScript } \cup { SomeScript(s) : s \in { t \in ParsedScripts : Truthy(t) } }

Line(kind, index) == [kind |-> kind, index |-> index]

\* run 232-235.
ScriptHeader(items) ==
    << Line("title", -1) >> \o [k \in 1..Len(items) |-> Line("source", items[k].index)]
        \o << Line("separator", -1) >>

\* run 210: `generated_title, script_json = generate_unified_script(...)`.
\* The outcome of unpacking the returned value into two names.
Unpack(ret) ==
    IF ret.none THEN "TypeError"
    ELSE IF Len(ret.turns) # 2 THEN "ValueError"
    ELSE "ok"

\* len() of the dict bound to script_json: its number of keys.
DictLen(turn) == Cardinality(DOMAIN turn)

\* A second request sent when the first gave no usable script.
ScriptRetriesOnNone(ret) == IF ret.none THEN 1 ELSE 0

\* llm.py 173-186: when the reply is missing or cannot be parsed,
\* generate_unified_script logs and returns None; it sends no further request.
ScriptRetries(ret) == 0

\* run 210-238, with the rest of generate_unified_script (llm.py 173-198).
WritingReturn ==
    /\ entry = "run" /\ pc = "writing"
    /\ \E ret \in UnifiedScriptReturns :
        /\ script_ret' = ret
        /\ scriptCalls' = scriptCalls + ScriptRetries(ret)
        /\ IF Unpack(ret) # "ok"
           THEN /\ result' = Raised(Unpack(ret))
                /\ UNCHANGED << progress, stats, script_text >>
           ELSE \* script_json is the second turn, a non-empty dict: line 218 passes,
                \* line 229 counts its keys, line 238 indexes its first key.
                /\ progress' = Append(progress, << "writing", 1, 1 >>)
                /\ stats' = [stats EXCEPT !.script_lines = DictLen(ret.turns[2])]
                /\ script_text' = ScriptHeader(analyses)
                /\ result' = Raised("TypeError")
    /\ pc' = "done"
    /\ UNCHANGED << configVars, logVars, clock, saved, arrival, requestVars, parserVars, segmentVars, fetchFut, fetched_data, anaFut, completed, analyses,
                    analysisCalls, audioVars >>

\* ------------------------------------------- generate_audio_for_script
\* The scripts the function is called on: turns with a speaker and a text,
\* some texts empty or blank.
AudioTurns ==
    { Turn("Host A", << "h", "i" >>), Turn("Host B", << "h", "i" >>),
      Turn("Narrator", << "h", "i" >>),
      Turn("Host A", << >>), Turn("Host B", << " " >>) }

AudioScripts ==
    UNION { [1..n -> AudioTurns] : n \in 0..MaxTurns }

\* audio.py 181-187: (i, txt, speaker) for every line whose text is neither
\* empty nor blank, i the 0-based position in the script.
RECURSIVE ValidSegments(_, _)
ValidSegments(script, k) ==
    IF k > Len(script) THEN << >>
    ELSE IF Truthy(script[k].text) /\ Truthy(Strip(script[k].text))
         THEN << [index |-> k - 1, text |-> script[k].text,
                  speaker |-> script[k].speaker] >> \o ValidSegments(script, k + 1)
         ELSE ValidSegments(script, k + 1)

\* audio.py 152-189: the API-key check and the list of TTS tasks.
AudioStart ==
    /\ entry = "audio" /\ pc = "idle"
    /\ IF ~Truthy(api_key)
       THEN /\ pc' = "done"
            /\ UNCHANGED valid_segments
       ELSE /\ valid_segments' = ValidSegments(script_json, 1)
            /\ pc' = "tts"
    /\ UNCHANGED << configVars, logVars, clock, saved, arrival, requestVars, parserVars, segmentVars, stats, fetchFut, fetched_data, anaFut, completed,
                    analyses, script_ret, script_text, progress, result, analysisCalls,
                    scriptCalls, script_json, nextSeg, results, errors, full_track,
                    ttsCalls >>

\* What generate_audio_segment returns as audio_data for a non-empty text:
\* the body of a 200 response (which may or may not decode as mp3), or None.
TtsPayloads == { None, "mp3", "garbage" }

Chunk(index, payload) == [index |-> index, payload |-> payload]

\* Every returned audio_data taken for audio.
HasAudioAlways(audio_data) == TRUE

\* audio.py 204: `if audio_data:`.
HasAudio(audio_data) == audio_data # None

\* audio.py 192-212: one iteration of the loop over valid_segments; the
\* segments are synthesized one after the other, in script order.
TtsSegment ==
    /\ entry = "audio" /\ pc = "tts"
    /\ nextSeg <= Len(valid_segments)
    /\ LET seg == valid_segments[nextSeg] IN
       \E payload \in TtsPayloads :
        /\ ttsCalls' = Append(ttsCalls, seg.index)
        /\ IF HasAudio(payload)
           THEN /\ results' = Append(results, Chunk(seg.index, payload))
                /\ UNCHANGED errors
           ELSE /\ errors' = Append(errors, seg.index)
                /\ UNCHANGED results
    /\ nextSeg' = nextSeg + 1
    /\ UNCHANGED << configVars, logVars, clock, saved, arrival, requestVars, parserVars, segmentVars, pc, stats, fetchFut, fetched_data, anaFut, completed,
                    analyses, script_ret, script_text, progress, result, analysisCalls,
                    scriptCalls, script_json, valid_segments, full_track >>

\* AudioSegment.from_file(..., format="mp3") raises on bytes that are no mp3.
Decodes(payload) == payload = "mp3"

\* audio.py 235-241: every chunk that decodes is appended, followed by the
\* pause; one that does not is skipped.  The track is the sequence of the
\* turn indices whose audio it holds.
RECURSIVE Concatenate(_)
Concatenate(chunks) ==
    IF chunks = << >> THEN << >>
    ELSE (IF Decodes(Head(chunks).payload) THEN << Head(chunks).index >> ELSE << >>)
            \o Concatenate(Tail(chunks))

\* audio.py 233: AudioSegment.silent(duration=400).
PauseMs == 400

\* len(seg) at audio.py 239: the milliseconds of the decoded audio of a turn.
SegMs(index) == 1000 * (index + 1)

\* audio.py 238, 243: len(full_track), every chunk followed by the pause.
RECURSIVE TrackMs(_)
TrackMs(track) ==
    IF track = << >> THEN 0
    ELSE SegMs(Head(track)) + PauseMs + TrackMs(Tail(track))

\* The lists of chunks audio.py 227-246 can be handed when the chunks arrive
\* in any order: no two chunks of one turn, each holding audio data that may
\* or may not decode.
ArrivalOrders ==
    { s \in UNION { [1..n -> { Chunk(i, p) : i \in 0..(MaxTurns - 1),
                                               p \in { "mp3", "garbage" } }] :
                        n \in 0..MaxTurns } :
        \A a, b \in 1..Len(s) : a # b => s[a].index # s[b].index }

\* audio.py 214-233: after the last segment, the statistics and the sort.
AudioSort ==
    /\ entry \in { "audio", "assemble" } /\ pc = "tts"
    /\ nextSeg > Len(valid_segments)
    /\ results' = SortByIndex(results)
    /\ pc' = "merge"
    /\ UNCHANGED << configVars, logVars, clock, saved, arrival, requestVars, parserVars, segmentVars, stats, fetchFut, fetched_data, anaFut, completed,
                    analyses, script_ret, script_text, progress, result, analysisCalls,
                    scriptCalls, script_json, valid_segments, nextSeg, errors, ttsCalls,
                    full_track >>

\* audio.py 235-246: the merge loop and the return of full_track.
AudioMerge ==
    /\ entry \in { "audio", "assemble" } /\ pc = "merge"
    /\ full_track' = Concatenate(results)
    /\ pc' = "done"
    /\ UNCHANGED << configVars, logVars, clock, saved, arrival, requestVars, parserVars, segmentVars, stats, fetchFut, fetched_data, anaFut, completed,
                    analyses, script_ret, script_text, progress, result, analysisCalls,
                    scriptCalls, script_json, valid_segments, nextSeg, results, errors,
                    ttsCalls >>

\* ------------------------------------------------------- parser.py: texts
\* A text is a sequence of tokens: punctuation, a double-quoted string
\* literal (v is what stands between the quotes, as written), a number,
\* whitespace, a fence of three backticks, or a bare word.
Tok(k, v) == [k |-> k, v |-> v]

P(c) == Tok("punct", c)

S(raw) == Tok("str", raw)

N(digits) == Tok("num", digits)

W(c) == Tok("ws", c)

Fence == Tok("fence", "backticks")

Word(w) == Tok("word", w)

\* A string literal with two escaped quotes, the string json decodes it
\* to, and what lies between its opening quote and the next quote character.
EscRaw == "say \\\"hi\\\""

EscDecoded == "say \"hi\""

EscUpToQuote == "say \\"

\* json's decoding of the escapes of a string literal.
JsonUnescape(raw) == IF raw = EscRaw THEN EscDecoded ELSE raw

\* The regex group "(.*?)" followed by a quote: the characters after the opening
\* quote up to the first quote character, escaped or not.
UpToQuote(raw) == IF raw = EscRaw THEN EscUpToQuote ELSE raw

\* Decoded JSON values; a dict is a function from its keys.
JStr(s) == [t |-> "str", v |-> s]

JNum(n) == [t |-> "num", v |-> n]

JList(s) == [t |-> "list", v |-> s]

JDict(d) == [t |-> "dict", v |-> d]

EmptyDict == [k \in {} |-> JNum("0")]

DictSet(d, key, val) == [k \in DOMAIN d \cup {key} |-> IF k = key THEN val ELSE d[k]]

\* ---------------------------------------------------- clean_json_text
IsWs(tok) == tok.k = "ws"

RECURSIVE SkipWs(_)
SkipWs(text) ==
    IF text # << >> /\ IsWs(Head(text)) THEN SkipWs(Tail(text)) ELSE text

RECURSIVE DropWsEnd(_)
DropWsEnd(text) ==
    IF text # << >> /\ IsWs(text[Len(text)])
    THEN DropWsEnd(SubSeq(text, 1, Len(text) - 1))
    ELSE text

\* str.strip() on a text.
StripText(text) == DropWsEnd(SkipWs(text))

\* Position k is where a line of the text starts / ends (re.MULTILINE).
LineStart(text, k) == k = 1 \/ text[k - 1] = W("\n")

LineEnd(text, k) == k = Len(text) \/ text[k + 1] = W("\n")

\* No tag removed along with the fence.
FenceTagNever(text, k) == FALSE

\* parser.py 13: the optional group (json) of the pattern ^```(json)?
FenceTag(text, k) ==
    k + 1 <= Len(text) /\ text[k + 1] = Word("json")

\* parser.py 13: re.sub(r"^```(json)?", "", text, flags=re.MULTILINE).
RECURSIVE SubLeadingFences(_, _)
SubLeadingFences(text, k) ==
    IF k > Len(text) THEN << >>
    ELSE IF text[k] = Fence /\ LineStart(text, k)
         THEN IF FenceTag(text, k) THEN SubLeadingFences(text, k + 2)
              ELSE SubLeadingFences(text, k + 1)
         ELSE << text[k] >> \o SubLeadingFences(text, k + 1)

\* parser.py 15: re.sub(r"```$", "", text, flags=re.MULTILINE).
RECURSIVE SubTrailingFences(_, _)
SubTrailingFences(text, k) ==
    IF k > Len(text) THEN << >>
    ELSE IF text[k] = Fence /\ LineEnd(text, k)
         THEN SubTrailingFences(text, k + 1)
         ELSE << text[k] >> \o SubTrailingFences(text, k + 1)

StartsWithFence(text) == text # << >> /\ Head(text) = Fence

EndsWithFence(text) == text # << >> /\ text[Len(text)] = Fence

\* parser.py 9-16.
clean_json_text(text) ==
    LET stripped == StripText(text)
        opened == IF StartsWithFence(stripped) THEN SubLeadingFences(stripped, 1)
                  ELSE stripped
        closed == IF EndsWithFence(opened) THEN SubTrailingFences(opened, 1)
                  ELSE opened
    IN  StripText(closed)

\* ----------------------------------------------------------- json.loads
Fail == [ok |-> FALSE, val |-> JNum("0"), rest |-> << >>]

Ok(val, rest) == [ok |-> TRUE, val |-> val, rest |-> rest]

RECURSIVE ParseValue(_)
RECURSIVE ParseElements(_, _)
RECURSIVE ParseMembers(_, _)

\* One JSON value at the head of the text, after optional whitespace.
ParseValue(text) ==
    LET t == SkipWs(text) IN
    IF t = << >> THEN Fail
    ELSE IF Head(t).k = "str" THEN Ok(JStr(JsonUnescape(Head(t).v)), Tail(t))
    ELSE IF Head(t).k = "num" THEN Ok(JNum(Head(t).v), Tail(t))
    ELSE IF Head(t) = P("[")
         THEN LET u == SkipWs(Tail(t)) IN
              IF u # << >> /\ Head(u) = P("]") THEN Ok(JList(<< >>), Tail(u))
              ELSE ParseElements(Tail(t), << >>)
    ELSE IF Head(t) = P("{")
         THEN LET u == SkipWs(Tail(t)) IN
              IF u # << >> /\ Head(u) = P("}") THEN Ok(JDict(EmptyDict), Tail(u))
              ELSE ParseMembers(Tail(t), EmptyDict)
    ELSE Fail

\* The elements of a list, up to its closing bracket.
ParseElements(text, acc) ==
    LET r == ParseValue(text) IN
    IF ~r.ok THEN Fail
    ELSE LET u == SkipWs(r.rest) IN
         IF u = << >> THEN Fail
         ELSE IF Head(u) = P(",") THEN ParseElements(Tail(u), Append(acc, r.val))
         ELSE IF Head(u) = P("]") THEN Ok(JList(Append(acc, r.val)), Tail(u))
         ELSE Fail

\* The members of an object, up to its closing brace; a repeated key keeps
\* its last value.
ParseMembers(text, acc) ==
    LET t == SkipWs(text) IN
    IF t = << >> \/ Head(t).k # "str" THEN Fail
    ELSE LET c == SkipWs(Tail(t)) IN
         IF c = << >> \/ Head(c) # P(":") THEN Fail
         ELSE LET r == ParseValue(Tail(c)) IN
              IF ~r.ok THEN Fail
              ELSE LET u == SkipWs(r.rest)
                       d == DictSet(acc, JsonUnescape(Head(t).v), r.val)
                   IN  IF u = << >> THEN Fail
                       ELSE IF Head(u) = P(",") THEN ParseMembers(Tail(u), d)
                       ELSE IF Head(u) = P("}") THEN Ok(JDict(d), Tail(u))
                       ELSE Fail

\* json.loads: one value and nothing but whitespace after it; anything else
\* raises JSONDecodeError (ok = FALSE).
json_loads(text) ==
    LET r == ParseValue(text) IN
    IF r.ok /\ SkipWs(r.rest) = << >> THEN r ELSE Fail

\* ------------------------------------------ parse_dialogue_regex_strict
\* The first position from k on that holds no whitespace (\s*).
RECURSIVE PastWs(_, _)
PastWs(text, k) ==
    IF k <= Len(text) /\ IsWs(text[k]) THEN PastWs(text, k + 1) ELSE k

\* The position of the string literal matched by  "key"\s*:\s*"  when the
\* literal "key" stands at position k, or 0.
ValueOfKey(text, k, key) ==
    IF text[k] # S(key) THEN 0
    ELSE LET c == PastWs(text, k + 1) IN
         IF c > Len(text) \/ text[c] # P(":") THEN 0
         ELSE LET v == PastWs(text, c + 1) IN
              IF v > Len(text) \/ text[v].k # "str" THEN 0 ELSE v

\* The group (Host [AB]) between quotes.
HostLiteral(tok) == tok \in { S("Host A"), S("Host B") }

\* The position of the host literal of  "speaker"\s*:\s*"(Host [AB])"  matched
\* at position k, or 0.
SpeakerAt(text, k) ==
    LET v == ValueOfKey(text, k, "speaker") IN
    IF v # 0 /\ HostLiteral(text[v]) THEN v ELSE 0

\* The first position from k on where the speaker pair / a text pair matches,
\* or 0.
RECURSIVE FirstSpeaker(_, _)
FirstSpeaker(text, k) ==
    IF k > Len(text) THEN 0
    ELSE IF SpeakerAt(text, k) # 0 THEN k
    ELSE FirstSpeaker(text, k + 1)

\* The last text pair instead of the nearest one (a greedy .* in the pattern).
RECURSIVE LastText(_, _)
LastText(text, k) ==
    IF k > Len(text) THEN 0
    ELSE LET later == LastText(text, k + 1) IN
         IF later # 0 THEN later
         ELSE IF ValueOfKey(text, k, "text") # 0 THEN k
         ELSE 0

RECURSIVE FirstText(_, _)
FirstText(text, k) ==
    IF k > Len(text) THEN 0
    ELSE IF ValueOfKey(text, k, "text") # 0 THEN k
    ELSE FirstText(text, k + 1)

\* parser.py 30: {"speaker": spk, "text": txt}.
RegexTurn(spk, txt) == JDict([speaker |-> JStr(spk), text |-> JStr(txt)])

\* parser.py 25-26: re.findall of
\*   "speaker"\s*:\s*"(Host [AB])".*?"text"\s*:\s*"(.*?)"   with re.DOTALL,
\* scanning from position k: the leftmost speaker pair, the nearest text pair
\* after it, and the scan resumed after the quote that closed the text group.
RECURSIVE FindAll(_, _)
FindAll(text, k) ==
    LET i == FirstSpeaker(text, k) IN
    IF i = 0 THEN << >>
    ELSE LET v == SpeakerAt(text, i)
             m == FirstText(text, v + 1)
         IN  IF m = 0 THEN << >>
             ELSE LET q == ValueOfKey(text, m, "text") IN
                  << RegexTurn(text[v].v, UpToQuote(text[q].v)) >>
                      \o FindAll(text, q + 1)

\* parser.py 19-34.
parse_dialogue_regex_strict(raw) == FindAll(raw, 1)

\* --------------------------------------------------- smart_parse_script
\* The keys tried in the opposite order.
WrapperKeysReversed == << "content", "dialogue", "script" >>

\* parser.py 60: the wrapper keys, in the order they are tried.
WrapperKeys == << "script", "dialogue", "content" >>

\* parser.py 59-63: the value of the first wrapper key that holds a list, or
\* the dict itself.
RECURSIVE Unwrap(_, _)
Unwrap(data, k) ==
    IF k > Len(WrapperKeys) THEN data
    ELSE IF WrapperKeys[k] \in DOMAIN data.v /\ data.v[WrapperKeys[k]].t = "list"
         THEN data.v[WrapperKeys[k]]
         ELSE Unwrap(data, k + 1)

\* An item kept on its speaker key alone.
IsValidItemSpeakerOnly(item) ==
    item.t = "dict" /\ "speaker" \in DOMAIN item.v

\* parser.py 72: isinstance(item, dict) and 'speaker' in item and 'text' in item.
IsValidItem(item) ==
    item.t = "dict" /\ "speaker" \in DOMAIN item.v /\ "text" \in DOMAIN item.v

\* parser.py 70-73.
RECURSIVE ValidData(_)
ValidData(items) ==
    IF items = << >> THEN << >>
    ELSE (IF IsValidItem(Head(items)) THEN << Head(items) >> ELSE << >>)
            \o ValidData(Tail(items))

\* parser.py 55-78: the try block; exc names what it raised, "" when it
\* returned valid_data.
TryStrict(clean_text) ==
    LET r == json_loads(clean_text) IN
    IF ~r.ok THEN [exc |-> "JSONDecodeError", value |-> << >>]
    ELSE LET data == IF r.val.t = "dict" THEN Unwrap(r.val, 1) ELSE r.val IN
         IF data.t # "list" THEN [exc |-> "ValueError", value |-> << >>]
         ELSE IF ValidData(data.v) = << >> THEN [exc |-> "ValueError", value |-> << >>]
         ELSE [exc |-> "", value |-> ValidData(data.v)]

\* A handler for the decoding error alone.
CatchesDecodeErrorOnly(exc) == exc = "JSONDecodeError"

\* parser.py 80: `except Exception`.
Catches(exc) == exc \in { "JSONDecodeError", "ValueError" }

\* What a call of smart_parse_script ends with: the list returned and the
\* path that produced it, or the exception that left the function.
Parsed(value, path) == [raised |-> "", value |-> value, path |-> path]

ParseRaised(exc) == [raised |-> exc, value |-> << >>, path |-> "raised"]

NoParse == [raised |-> "", value |-> << >>, path |-> "none"]

\* parser.py 37-83.
smart_parse_script(raw) ==
    IF ~Truthy(raw) THEN Parsed(<< >>, "empty")
    ELSE LET strict == TryStrict(clean_json_text(raw)) IN
         IF strict.exc = "" THEN Parsed(strict.value, "strict")
         ELSE IF Catches(strict.exc)
              THEN Parsed(parse_dialogue_regex_strict(raw), "fallback")
              ELSE ParseRaised(strict.exc)

\* ------------------------------------------ the texts the parser is given
\* The texts of the elements a model reply is made of.
MemberText(key, valueText) == << S(key), P(":"), W(" ") >> \o valueText

RECURSIVE Join(_)
Join(texts) ==
    IF texts = << >> THEN << >>
    ELSE IF Len(texts) = 1 THEN texts[1]
    ELSE texts[1] \o << P(","), W(" ") >> \o Join(Tail(texts))

ObjectText(members) == << P("{") >> \o Join(members) \o << P("}") >>

ListText(elements) == << P("[") >> \o Join(elements) \o << P("]") >>

TurnText(spk, txt) ==
    ObjectText(<< MemberText("speaker", << S(spk) >>), MemberText("text", << S(txt) >>) >>)

ItemIds == { "A", "B", "narrator", "notext", "number", "textfirst", "escaped", "extra" }

ItemText(id) ==
    CASE id = "A" -> TurnText("Host A", "hi")
      [] id = "B" -> TurnText("Host B", "yo")
      [] id = "narrator" -> TurnText("Narrator", "hi")
      [] id = "notext" -> ObjectText(<< MemberText("speaker", << S("Host A") >>) >>)
      [] id = "number" -> << N("7") >>
      [] id = "textfirst" ->
            ObjectText(<< MemberText("text", << S("yo") >>),
                          MemberText("speaker", << S("Host B") >>) >>)
      [] id = "escaped" -> TurnText("Host A", EscRaw)
      [] id = "extra" ->
            ObjectText(<< MemberText("speaker", << S("Host B") >>),
                          MemberText("mood", << S("calm") >>),
                          MemberText("text", << S("yo") >>) >>)

ItemLists == UNION { [1..n -> ItemIds] : n \in 0..MaxItems }

ItemsText(items) == ListText([k \in 1..Len(items) |-> ItemText(items[k])])

Shapes == { "list", "script", "dialogue", "content", "dialogue+script",
            "script+content", "nonlist", "object" }

\* A reply: the list of items bare, under a wrapper key, next to a second
\* wrapper key, next to a wrapper key that holds no list, or under a key that
\* is no wrapper key.
Doc(shape, items) ==
    CASE shape = "list" -> ItemsText(items)
      [] shape \in { "script", "dialogue", "content" } ->
            ObjectText(<< MemberText(shape, ItemsText(items)) >>)
      [] shape = "dialogue+script" ->
            ObjectText(<< MemberText("dialogue", ItemsText(items)),
                          MemberText("script", ItemsText(<< "B" >>)) >>)
      [] shape = "script+content" ->
            ObjectText(<< MemberText("script", ItemsText(items)),
                          MemberText("content", ItemsText(<< "B" >>)) >>)
      [] shape = "nonlist" ->
            ObjectText(<< MemberText("script", << S("none") >>),
                          MemberText("dialogue", ItemsText(items)) >>)
      [] shape = "object" ->
            ObjectText(<< MemberText("title", << S("news") >>),
                          MemberText("turns", ItemsText(items)) >>)

Variants == { "plain", "fence", "fence_json", "fence_other", "unclosed", "prose",
              "empty", "blank" }

\* The reply as the model sent it: as it is, in a fenced code block (untagged,
\* tagged json, tagged otherwise), cut before its last bracket, after a line
\* of prose, or replaced by an empty or a blank text.
Sent(wrap, text) ==
    CASE wrap = "plain" -> text
      [] wrap = "fence" -> << Fence, W("\n") >> \o text \o << W("\n"), Fence >>
      [] wrap = "fence_json" ->
            << Fence, Word("json"), W("\n") >> \o text \o << W("\n"), Fence >>
      [] wrap = "fence_other" ->
            << Fence, Word("javascript"), W("\n") >> \o text \o << W("\n"), Fence >>
      [] wrap = "unclosed" -> SubSeq(text, 1, Len(text) - 1)
      [] wrap = "prose" -> << Word("Sure"), W("\n") >> \o text
      [] wrap = "empty" -> << >>
      [] wrap = "blank" -> << W(" ") >>

\* One call of smart_parse_script (parser.py 37-83).
SmartParse ==
    /\ entry = "parse" /\ pc = "idle"
    /\ parse_ret' = smart_parse_script(raw_text)
    /\ pc' = "done"
    /\ UNCHANGED << configVars, logVars, clock, saved, arrival, requestVars, segmentVars, raw_base, variant, raw_text, stats, fetchFut,
                    fetched_data, anaFut, completed, analyses, script_ret, script_text,
                    progress, result, analysisCalls, scriptCalls, audioVars >>

\* ------------------------------------------- generate_audio_segment
\* str.lower() on the letters the speakers and voice names are written in.
LowerChar(c) ==
    CASE c = "A" -> "a"
      [] c = "B" -> "b"
      [] c = "C" -> "c"
      [] c = "H" -> "h"
      [] c = "N" -> "n"
      [] OTHER -> c

Lower(s) == [k \in 1..Len(s) |-> LowerChar(s[k])]

\* Python's `needle in hay` on str.
Contains(hay, needle) ==
    \E i \in 0..(Len(hay) - Len(needle)) : SubSeq(hay, i + 1, i + Len(needle)) = needle

\* config.py 132, shortened: a model name without a colon.
tts_model_name == << "m" >>

\* PodcastConfig.get_full_voice_id (config.py 146-150).
get_full_voice_id(voice_name) ==
    IF Contains(voice_name, << ":" >>) THEN voice_name
    ELSE tts_model_name \o << ":" >> \o voice_name

\* config.py 152-158.
voice_a_full == get_full_voice_id(voice_name_host_a)

voice_b_full == get_full_voice_id(voice_name_host_b)

\* The speakers and texts generate_audio_segment is called with, and the
\* configured voice names.
Speakers ==
    { << "H", "o", "s", "t", " ", "A" >>, << "h", "o", "s", "t", " ", "b" >>,
      << "N", "a", "r", "r", "a", "t", "o", "r" >>, << "C", "l", "a", "i", "r", "e" >> }

SegmentTexts == { << >>, << " " >>, << "h", "i" >> }

VoiceNamesA == { << "a", "l", "e", "x" >>, << "x", ":", "a", "l", "e", "x" >>, << >> }

VoiceNamesB == { << "c", "l", "a", "i", "r", "e" >> }

\* A speaker that matches neither host given the voice of Host B.
VoiceIdUnknownToB(speaker) ==
    IF \/ Contains(Lower(speaker), << "h", "o", "s", "t", " ", "a" >>)
       \/ Contains(Lower(speaker), Lower(voice_name_host_a))
    THEN voice_a_full
    ELSE voice_b_full

\* audio.py 35-44: the voice of a speaker.
VoiceId(speaker) ==
    IF \/ Contains(Lower(speaker), << "h", "o", "s", "t", " ", "a" >>)
       \/ Contains(Lower(speaker), Lower(voice_name_host_a))
    THEN voice_a_full
    ELSE IF \/ Contains(Lower(speaker), << "h", "o", "s", "t", " ", "b" >>)
            \/ Contains(Lower(speaker), Lower(voice_name_host_b))
         THEN voice_b_full
         ELSE voice_a_full

\* An Optional value: None, or a value.
Nothing == [none |-> TRUE, value |-> << >>]

Some(value) == [none |-> FALSE, value |-> value]

\* What generate_audio_segment returns: (index, audio_data, error).
SegmentReturn(index, audio_data, error) ==
    [index |-> index, audio_data |-> audio_data, error |-> error]

NoSegmentReturn == [index |-> -1, audio_data |-> Nothing, error |-> "not returned"]

ErrEmptyText == "text is empty"

\* audio.py 25-58: the empty-text return, the voice and the payload.
SegmentStart ==
    /\ entry = "segment" /\ pc = "idle"
    /\ IF ~Truthy(seg_text) \/ Len(Strip(seg_text)) = 0
       THEN /\ seg_ret' = SegmentReturn(seg_index, Nothing, ErrEmptyText)
            /\ pc' = "done"
            /\ UNCHANGED voice_id
       ELSE /\ voice_id' = VoiceId(seg_speaker)
            /\ pc' = "post"
            /\ UNCHANGED seg_ret
    /\ UNCHANGED << configVars, logVars, clock, saved, arrival, requestVars, parserVars, audioVars, seg_index, seg_text, seg_speaker,
                    voice_name_host_a, voice_name_host_b, attempt, seg_posts, last_error,
                    stats, fetchFut, fetched_data, anaFut, completed, analyses, script_ret,
                    script_text, progress, result, analysisCalls, scriptCalls >>

\* audio.py 74: the size a 200 body must exceed.
MinAudioBytes == 100

\* What one POST ends with: a status or an exception, and for a 200 the
\* content (of 0, 100 or 101 bytes).
Responses ==
    { [kind |-> "200", body |-> [b \in 1..n |-> "b"]] :
            n \in { 0, MinAudioBytes, MinAudioBytes + 1 } }
    \cup { [kind |-> k, body |-> << >>] :
            k \in { "429", "400", "401", "404", "500",
                    "Timeout", "ConnectionError", "Exception" } }

\* A body of exactly the minimum taken for audio.
PlausibleAudioFromMinimum(content) == Truthy(content) /\ Len(content) >= MinAudioBytes

\* audio.py 74: `if content and len(content) > 100`.
PlausibleAudio(content) == Truthy(content) /\ Len(content) > MinAudioBytes

\* audio.py 95-114, 134-137: the outcomes that leave the loop by break.
Breaks(kind) == kind \in { "400", "401", "404", "Exception" }

\* audio.py 61: range(3).
MaxAttempts == 3

\* A loop that no attempt is the last of.
LoopEndsNever(k, n) == FALSE

\* audio.py 61, fetcher.py 23: attempt k was the last of range(n).
LoopEnds(k, n) == k + 1 >= n

\* audio.py 61-140: one iteration of the retry loop and, when the loop is
\* left, the return.
SegmentAttempt ==
    /\ entry = "segment" /\ pc = "post"
    /\ \E response \in Responses :
        /\ seg_posts' = Append(seg_posts, voice_id)
        /\ responses' = Append(responses, response)
        /\ IF response.kind = "200" /\ PlausibleAudio(response.body)
           THEN /\ seg_ret' = SegmentReturn(seg_index, Some(response.body), None)
                /\ pc' = "done"
                /\ UNCHANGED << attempt, last_error >>
           ELSE /\ last_error' = response.kind
                /\ IF Breaks(response.kind) \/ LoopEnds(attempt, MaxAttempts)
                   THEN /\ seg_ret' = SegmentReturn(seg_index, Nothing, response.kind)
                        /\ pc' = "done"
                        /\ UNCHANGED attempt
                   ELSE /\ attempt' = attempt + 1
                        /\ UNCHANGED << seg_ret, pc >>
    /\ UNCHANGED << configVars, logVars, clock, saved, arrival, fetch_index, fetch_ret, llm_ret,
                    parserVars, audioVars, seg_index, seg_text, seg_speaker,
                    voice_name_host_a, voice_name_host_b, voice_id,
                    stats, fetchFut, fetched_data, anaFut, completed, analyses, script_ret,
                    script_text, progress, result, analysisCalls, scriptCalls >>

\* ----------------------------------------------- fetch_content_with_jina
\* fetcher.py 11: max_retries: int = 3.
max_retries == 3

\* What one GET ends with: a status or an exception, and for a 200 the text.
FetchResponses ==
    { [kind |-> "200", body |-> b] :
            b \in { << >>, << "High volume" >>, << "news" >>,
                    << "news", "High volume", "now" >> } }
    \cup { [kind |-> k, body |-> << >>] :
            k \in { "429", "400", "401", "404", "500",
                    "Timeout", "ConnectionError", "Exception" } }

\* No text taken for the busy signal.
BusyNever(text) == FALSE

\* fetcher.py 36: `"High volume" in text`.
Busy(text) == \E k \in 1..Len(text) : text[k] = "High volume"

\* Only the two named exceptions handled.
FetchHandlersNamedOnly == { "Timeout", "ConnectionError" }

\* fetcher.py 57-67: the exceptions the loop body's handlers catch.
FetchHandlers == { "Timeout", "ConnectionError", "Exception" }

\* What _fetch_task gives its caller: the tuple (index, url, content), or an
\* exception.
FetchReturn(kind, index, content) ==
    [kind |-> kind, index |-> index, url |-> UrlName(index), content |-> content]

\* pipeline.py 321-325 calling fetcher.py 23-70: one iteration of the retry
\* loop and, when the loop is left, the return of the task.
FetchAttempt ==
    /\ entry = "fetch" /\ pc = "get"
    /\ \E response \in FetchResponses :
        /\ responses' = Append(responses, response)
        /\ IF response.kind = "200" /\ Truthy(response.body) /\ ~Busy(response.body)
           THEN /\ fetch_ret' = FetchReturn("returned", fetch_index, Some(response.body))
                /\ pc' = "done"
                /\ UNCHANGED attempt
           ELSE IF /\ response.kind \in { "Timeout", "ConnectionError", "Exception" }
                   /\ response.kind \notin FetchHandlers
           THEN /\ fetch_ret' = FetchReturn("raised", fetch_index, Nothing)
                /\ pc' = "done"
                /\ UNCHANGED attempt
           ELSE IF LoopEnds(attempt, max_retries)
           THEN /\ fetch_ret' = FetchReturn("returned", fetch_index, Nothing)
                /\ pc' = "done"
                /\ UNCHANGED attempt
           ELSE /\ attempt' = attempt + 1
                /\ UNCHANGED << fetch_ret, pc >>
    /\ UNCHANGED << configVars, logVars, clock, saved, arrival, fetch_index, llm_ret, parserVars, audioVars,
                    seg_index, seg_text, seg_speaker, voice_name_host_a,
                    voice_name_host_b, voice_id, seg_posts, last_error, seg_ret,
                    stats, fetchFut, fetched_data, anaFut, completed, analyses, script_ret,
                    script_text, progress, result, analysisCalls, scriptCalls >>

\* ------------------------------------------------------------ call_llm_api
\* What the POST ends with: a status or an exception, and for a 200 the
\* contents of the choices of the reply.
LlmResponses ==
    { [kind |-> "200", body |-> b] :
            b \in { << >>, << << >> >>, << << "text" >> >> } }
    \cup { [kind |-> k, body |-> << >>] :
            k \in { "429", "400", "401", "404", "500",
                    "Timeout", "ConnectionError", "Exception" } }

\* llm.py 43-72: the one request and the return.
call_llm_api ==
    /\ entry = "llm" /\ pc = "idle"
    /\ \E response \in LlmResponses :
        /\ responses' = Append(responses, response)
        /\ llm_ret' = IF response.kind = "200" /\ Len(response.body) > 0
                      THEN [kind |-> "returned", output |-> Some(response.body[1])]
                      ELSE [kind |-> "returned", output |-> Nothing]
    /\ pc' = "done"
    /\ UNCHANGED << configVars, logVars, clock, saved, arrival, fetch_index, fetch_ret, parserVars, audioVars,
                    segmentVars, stats, fetchFut, fetched_data, anaFut, completed,
                    analyses, script_ret, script_text, progress, result,
                    analysisCalls, scriptCalls >>

\* ------------------------------------------------------ PodcastPipeline.log
\* The messages each thread logs.
MaxLogs == 2

\* The threads that call PodcastPipeline.log during a parallel stage: the
\* orchestrator (0), in the as_completed loop, and the pool's workers, in
\* _fetch_task and analyze_article.
Threads == 0..MaxWorkers

\* The messages of a thread that are in the list.
Logged(t) == Len(SelectSeq(logs, LAMBDA m : m.thread = t))

\* A lock that is never held.
LockFreeAlways == TRUE

\* streamlit_app.py 339: `with logs_lock` is entered when no thread holds it.
LockFree == logs_lock = {}

\* All that is unchanged by the steps of the logging threads and of the
\* storage.
NotLogging ==
    UNCHANGED << configVars, arrival, requestVars, parserVars, segmentVars, audioVars,
                 pc, stats, fetchFut, fetched_data, anaFut, completed, analyses,
                 script_ret, script_text, progress, result, analysisCalls, scriptCalls >>

\* pipeline.py 55-57: a thread enters log and prints the message.
LogPrint ==
    /\ entry = "log"
    /\ \E t \in Threads :
        /\ log_at[t] = "idle" /\ Logged(t) < MaxLogs
        /\ log_at' = [log_at EXCEPT ![t] = "print"]
    /\ UNCHANGED << logs_lock, logs, clock, saved >>
    /\ NotLogging

\* pipeline.py 58-59: the thread calls the registered callback, which comes to
\* its `with logs_lock` (streamlit_app.py 338-339).
LogCallback ==
    /\ entry = "log"
    /\ \E t \in Threads :
        /\ log_at[t] = "print"
        /\ log_at' = [log_at EXCEPT ![t] = "callback"]
    /\ UNCHANGED << logs_lock, logs, clock, saved >>
    /\ NotLogging

\* streamlit_app.py 339: the lock is acquired.
LogAcquire ==
    /\ entry = "log"
    /\ LockFree
    /\ \E t \in Threads :
        /\ log_at[t] = "callback"
        /\ log_at' = [log_at EXCEPT ![t] = "append"]
        /\ logs_lock' = { t }
    /\ UNCHANGED << logs, clock, saved >>
    /\ NotLogging

\* streamlit_app.py 340: the append, the release of the lock at the end of
\* the with block, and the return of log_callback and of log.
LogAppend ==
    /\ entry = "log"
    /\ \E t \in Threads :
        /\ log_at[t] = "append"
        /\ logs' = Append(logs, [thread |-> t, n |-> Logged(t) + 1])
        /\ logs_lock' = logs_lock \ { t }
        /\ log_at' = [log_at EXCEPT ![t] = "idle"]
    /\ UNCHANGED << clock, saved >>
    /\ NotLogging

\* ------------------------------------------------------------ storage.py
\* The seconds the clock goes through, and the calls of save_podcast made.
MaxClock == 2

MaxSaves == 3

\* storage.py 28: hashlib.md5(timestamp.encode()).hexdigest()[:6], a function
\* of the timestamp alone (here a number below 16 ** 6).
md5_prefix(timestamp) == (timestamp * 7368787 + 11) % 16777216

\* storage.py 25-29: the timestamp to the second, and the hash of that same
\* timestamp.
generate_id(now) == [timestamp |-> now, hash_suffix |-> md5_prefix(now)]

\* The clock passes to the next second.
ClockTick ==
    /\ entry = "save"
    /\ clock < MaxClock
    /\ clock' = clock + 1
    /\ UNCHANGED << saved, logVars >>
    /\ NotLogging

\* storage.py 95-138: a call of save_podcast, from this session or another:
\* the ID names the audio file, the script file and the metadata row.
save_podcast ==
    /\ entry = "save"
    /\ Len(saved) < MaxSaves
    /\ saved' = Append(saved, generate_id(clock))
    /\ UNCHANGED << clock, logVars >>
    /\ NotLogging

\* ------------------------------------------------------------------ Init
Init ==
    /\ entry \in { "run", "audio", "assemble", "parse", "segment", "fetch", "llm", "log",
                 "save" }
    /\ IF entry = "run"
       THEN /\ urls \in UrlLists
            /\ max_workers_jina \in 1..MaxWorkers
            /\ max_workers_llm \in 1..MaxWorkers
       ELSE /\ urls = << >>
            /\ max_workers_jina = 1
            /\ max_workers_llm = 1
    /\ IF entry \in { "run", "audio" } THEN api_key \in ApiKeys
       ELSE IF entry = "parse" THEN api_key = << >>
       ELSE api_key = << "s", "k" >>
    /\ IF entry = "audio" THEN script_json \in AudioScripts
       ELSE IF entry = "assemble"
       THEN script_json = [k \in 1..MaxTurns |-> Turn("Host A", << "h", "i" >>)]
       ELSE script_json = << >>
    /\ IF entry = "assemble" THEN arrival \in ArrivalOrders ELSE arrival = << >>
    /\ IF entry = "parse"
       THEN /\ \E shape \in Shapes, items \in ItemLists :
                    raw_base = Doc(shape, items)
            /\ variant \in Variants
            /\ raw_text = Sent(variant, raw_base)
       ELSE raw_base = << >> /\ variant = "plain" /\ raw_text = << >>
    /\ IF entry = "segment"
       THEN /\ seg_index \in { 0, 1 }
            /\ seg_text \in SegmentTexts
            /\ seg_speaker \in Speakers
            /\ voice_name_host_a \in VoiceNamesA
            /\ voice_name_host_b \in VoiceNamesB
       ELSE /\ seg_index = 0 /\ seg_text = << >> /\ seg_speaker = << >>
            /\ voice_name_host_a = << >> /\ voice_name_host_b = << >>
    /\ parse_ret = NoParse
    /\ voice_id = << >>
    /\ attempt = 0
    /\ seg_posts = << >>
    /\ last_error = ""
    /\ seg_ret = NoSegmentReturn
    /\ pc = IF entry = "assemble" THEN "tts"
            ELSE IF entry = "fetch" THEN "get"
            ELSE "idle"
    /\ responses = << >>
    /\ log_at = [t \in Threads |-> "idle"]
    /\ logs_lock = {}
    /\ logs = << >>
    /\ clock = 0
    /\ saved = << >>
    /\ IF entry = "fetch" THEN fetch_index \in 0..(MaxUrls - 1) ELSE fetch_index = 0
    /\ fetch_ret = FetchReturn("none", 0, Nothing)
    /\ llm_ret = [kind |-> "none", output |-> Nothing]
    /\ stats = EmptyStats
    /\ fetchFut = << >>
    /\ fetched_data = << >>
    /\ anaFut = << >>
    /\ completed = 0
    /\ analyses = << >>
    /\ script_ret = NoScript
    /\ script_text = << >>
    /\ progress = << >>
    /\ result = NoResult
    /\ analysisCalls = {}
    /\ scriptCalls = 0
    /\ ttsCalls = << >>
    /\ valid_segments = IF entry = "assemble" THEN ValidSegments(script_json, 1)
                        ELSE << >>
    /\ nextSeg = Len(valid_segments) + 1
    /\ results = arrival
    /\ errors = << >>
    /\ full_track = << >>

Next ==
    \/ RunStart
    \/ FetchTaskStart
    \/ FetchTaskFinish
    \/ FetchYield
    \/ FetchStageEnd
    \/ AnaTaskStart
    \/ AnaTaskFinish
    \/ AnaYield
    \/ AnaStageEnd
    \/ WritingReturn
    \/ AudioStart
    \/ TtsSegment
    \/ AudioSort
    \/ AudioMerge
    \/ SmartParse
    \/ SegmentStart
    \/ SegmentAttempt
    \/ FetchAttempt
    \/ call_llm_api
    \/ LogPrint
    \/ LogCallback
    \/ LogAcquire
    \/ LogAppend
    \/ ClockTick
    \/ save_podcast

Spec == Init /\ [][Next]_vars

\* A run of PodcastPipeline.run alone.
RunInit == Init /\ entry = "run"

RunNext ==
    \/ RunStart
    \/ FetchTaskStart
    \/ FetchTaskFinish
    \/ FetchYield
    \/ FetchStageEnd
    \/ AnaTaskStart
    \/ AnaTaskFinish
    \/ AnaYield
    \/ AnaStageEnd
    \/ WritingReturn

\* Every outbound request returns or times out (requests' timeout= at
\* fetcher.py 26, llm.py 44, audio.py 64), the executors run their queued
\* tasks and the calling thread is scheduled: a step of the run that can be
\* taken is eventually taken.
FairSpec == RunInit /\ [][RunNext]_vars /\ WF_vars(RunNext)

\* ==================================================================
\* Properties
\* ==================================================================
Validated == entry = "run" /\ stats # EmptyStats

RunEnded == entry = "run" /\ pc = "done"

Returned == result.kind = "returned"

StageStarted(stage) == \E k \in 1..Len(progress) : progress[k][1] = stage

LastStage == IF progress = << >> THEN "idle" ELSE progress[Len(progress)][1]

Unfinished(futs) == { i \in DOMAIN futs : futs[i].state \in {"pending", "running"} }

\* The URLs whose fetch gave content, and the articles whose analysis gave text.
FetchSurvivors == { i \in DOMAIN fetchFut : fetchFut[i].value # None }

AnalysisSurvivors == { i \in DOMAIN anaFut : anaFut[i].value # None }

FetchStageOver == Validated /\ pc \in {"analyzing", "writing", "done"}

AnalysisStageOver == Validated /\ StageStarted("analyzing") /\ pc \in {"writing", "done"}

NonDecreasing(seq) == \A a, b \in 1..Len(seq) : a < b => seq[a] <= seq[b]

IsTurnLine(line) == line.kind = "turn"

TranscriptTurns == [k \in 1..Len(SelectSeq(script_text, IsTurnLine)) |->
                        SelectSeq(script_text, IsTurnLine)[k].index]

\* C1: the turns of the assembled audio track (generate_audio_for_script's
\* full_track) and the turn lines of the transcript (run's script_text) are in
\* non-decreasing order of their script position: no turn with a larger index
\* comes before one with a smaller index.
C1_TurnOrderNonDecreasing ==
    /\ NonDecreasing(full_track)
    /\ NonDecreasing(TranscriptTurns)

\* A track was assembled from three synthesized turns, the middle one of which
\* was skipped (its audio did not decode).
C1_Witness ==
    /\ entry = "audio" /\ pc = "done"
    /\ Len(results) = 3
    /\ full_track = << 0, 2 >>

\* C2: when the fetch fails for a non-empty strict subset of the URLs, the run
\* enters Analyzing with exactly one analysis task per surviving item and none
\* for a failed one, stats.fetched is the number of survivors, Writing is
\* entered with exactly the surviving analyses, and the run does not return the
\* all-fetches-failed failure.
C2_PartialFetchProceeds ==
    (FetchStageOver /\ FetchSurvivors # {} /\ FetchSurvivors # DOMAIN fetchFut) =>
        /\ StageStarted("analyzing")
        /\ DOMAIN anaFut = FetchSurvivors
        /\ Indices(fetched_data) = FetchSurvivors
        /\ Len(fetched_data) = Cardinality(FetchSurvivors)
        /\ stats.fetched = Cardinality(FetchSurvivors)
        /\ analysisCalls \subseteq FetchSurvivors
        /\ (AnalysisStageOver => analysisCalls = FetchSurvivors)
        /\ (AnalysisStageOver /\ AnalysisSurvivors # {} =>
                /\ StageStarted("writing")
                /\ scriptCalls = 1
                /\ Indices(analyses) = AnalysisSurvivors
                /\ Indices(analyses) \subseteq FetchSurvivors)
        /\ ~(Returned /\ result.error_message = ErrAllFetchFailed)

\* Three URLs, one failed fetch: the script request was issued for the two
\* surviving articles.
C2_Witness ==
    /\ entry = "run" /\ pc = "writing"
    /\ Len(urls) = 3
    /\ Cardinality(FetchSurvivors) = 2
    /\ stats.fetched = 2
    /\ Indices(analyses) = FetchSurvivors

\* C3: when every fetch fails, no analysis, script or TTS request is ever
\* issued and the Analyzing stage is not entered; the run ends by returning
\* success = false with stats.analyzed = 0.
C3_AllFetchesFail ==
    /\ (Validated /\ FetchSurvivors = {}) =>
            /\ analysisCalls = {} /\ scriptCalls = 0 /\ ttsCalls = << >>
            /\ ~StageStarted("analyzing")
            /\ anaFut = << >>
    /\ (RunEnded /\ Validated /\ FetchSurvivors = {}) =>
            /\ Returned
            /\ result.success = FALSE
            /\ result.stats.analyzed = 0

\* A run over two URLs ended after both fetches failed.
C3_Witness ==
    /\ RunEnded /\ Validated
    /\ Len(urls) >= 2
    /\ AllYielded(fetchFut)
    /\ FetchSurvivors = {}

\* C4: when at least one fetch succeeds and every analysis fails, the run
\* returns success = false with a non-empty error message, and neither the
\* script request nor any TTS request is issued.
C4_AllAnalysesFail ==
    /\ (FetchStageOver /\ AnalysisSurvivors = {}) =>
            /\ scriptCalls = 0 /\ ttsCalls = << >>
            /\ ~StageStarted("writing")
    /\ (RunEnded /\ FetchSurvivors # {} /\ AnalysisSurvivors = {}) =>
            /\ Returned
            /\ result.success = FALSE
            /\ result.error_message # ""

\* A run ended after two articles were fetched and both analyses failed.
C4_Witness ==
    /\ RunEnded
    /\ Cardinality(FetchSurvivors) >= 2
    /\ analysisCalls = FetchSurvivors
    /\ AnalysisSurvivors = {}

\* C5 (as claimed): when the Writing stage yields no script (the request
\* failed, or the parser recovered no turn), the run returns a PipelineResult
\* with success = false and a descriptive message, and no TTS work is done.
C5_NoScriptReturnsFailure ==
    (RunEnded /\ scriptCalls > 0 /\ script_ret.none) =>
        /\ Returned
        /\ result.success = FALSE
        /\ result.error_message # ""
        /\ ttsCalls = << >>

\* C6 (as claimed): once the Writing stage has produced a non-empty script,
\* the run ends by returning success = true.
C6_ScriptMeansSuccess ==
    (RunEnded /\ scriptCalls > 0 /\ ~script_ret.none) =>
        /\ Returned
        /\ result.success = TRUE

\* C7 (as claimed): run never raises to its caller.
C7_RunNeverRaises == result.kind # "raised"

\* The last stage entered is Fetching, Analyzing or Writing, it is over, and
\* it left no surviving item.
FailedFromStage ==
    \/ /\ LastStage = "fetching"
       /\ AllYielded(fetchFut) /\ fetched_data = << >> /\ FetchSurvivors = {}
    \/ /\ LastStage = "analyzing"
       /\ AllYielded(anaFut) /\ analyses = << >> /\ AnalysisSurvivors = {}
    \/ /\ LastStage = "writing"
       /\ script_ret.none

\* The run has entered no stage, and PodcastConfig.validate rejects the
\* configuration.
FailedFromIdle ==
    /\ LastStage = "idle"
    /\ ~Truthy(Strip(api_key)) \/ urls = << >>
    /\ result.error_message \in {ErrNoApiKey, ErrNoUrls}

\* C8 (as claimed): a result with success = false is returned only from
\* Fetching, Analyzing or Writing, with that stage's survivors at zero; every
\* failed run has entered the Fetching stage.
C8_FailedOnlyFromStages ==
    (Returned /\ result.success = FALSE) =>
        /\ StageStarted("fetching")
        /\ FailedFromStage

\* C8 (amended): a result with success = false is returned only from Idle,
\* before Fetching is entered, when the configuration is rejected (blank API
\* key or no URL), or from Fetching, Analyzing or Writing with that stage's
\* survivors at zero; every failed run with a valid configuration has entered
\* the Fetching stage.
C8_FailedOnlyFromIdleOrStages ==
    (Returned /\ result.success = FALSE) =>
        /\ FailedFromIdle \/ FailedFromStage
        /\ (Truthy(Strip(api_key)) /\ urls # << >>) => StageStarted("fetching")

\* A failure returned for want of URLs, with an API key set, before any stage
\* was entered.
C8_Witness ==
    /\ Returned /\ result.success = FALSE
    /\ LastStage = "idle"
    /\ Truthy(Strip(api_key)) /\ urls = << >>

\* The stage names of update_progress, in the order run emits them.
StageOrder == << "fetching", "analyzing", "writing", "tts", "merging", "complete" >>

StageRank(stage) == CHOOSE k \in 1..Len(StageOrder) : StageOrder[k] = stage

\* C9: the stages start in the order Fetching, Analyzing, Writing; Analyzing
\* starts only when no fetch task is running or pending, the script request is
\* issued only when no analysis task is running or pending, and the assembly
\* of the audio starts only when no TTS task is left to run.
C9_StageBarriers ==
    /\ \A a, b \in 1..Len(progress) :
            a < b => StageRank(progress[a][1]) <= StageRank(progress[b][1])
    /\ (StageStarted("analyzing") \/ anaFut # << >> \/ analysisCalls # {}) =>
            /\ StageStarted("fetching")
            /\ Unfinished(fetchFut) = {} /\ AllYielded(fetchFut)
    /\ (StageStarted("writing") \/ scriptCalls > 0) =>
            /\ StageStarted("analyzing")
            /\ Unfinished(anaFut) = {} /\ AllYielded(anaFut)
    /\ (entry = "audio" /\ (pc = "merge" \/ full_track # << >>)) =>
            /\ nextSeg > Len(valid_segments)
            /\ Len(results) + Len(errors) = Len(valid_segments)

\* The script request was issued after three fetch tasks and two analysis
\* tasks, run two at a time, had all completed.
C9_Witness ==
    /\ entry = "run" /\ pc = "writing" /\ scriptCalls = 1
    /\ max_workers_jina = 2 /\ max_workers_llm = 2
    /\ Cardinality(DOMAIN fetchFut) = 3
    /\ Cardinality(DOMAIN anaFut) = 2

\* C10: every returned result with success = false carries a non-empty
\* error_message, and every returned result with success = true an empty one.
C10_ErrorMessageIffFailed ==
    Returned =>
        /\ (result.success = FALSE => result.error_message # "")
        /\ (result.success = TRUE => result.error_message = "")

\* A failed result returned after the Analyzing stage.
C10_Witness ==
    /\ Returned /\ result.success = FALSE
    /\ LastStage = "analyzing"
    /\ result.error_message = ErrAllAnalysisFailed

\* The keys of the statistics breakdown.
StatKeys == { "total_urls", "fetched", "analyzed", "script_lines", "audio_segments" }

\* C11 as stated: every result returned by run, on whichever return path,
\* carries the statistics breakdown with the five per-stage counts.
C11_EveryResultCarriesStats ==
    (entry = "run" /\ Returned) => DOMAIN result.stats = StatKeys

\* C11, amended: every result returned by run after the configuration passed
\* validation carries the five per-stage counts, total_urls being the number
\* of URLs and no count exceeding it; the result returned when validation
\* fails carries an empty statistics dict.
C11_ResultCarriesStatsOnceValidated ==
    (entry = "run" /\ Returned) =>
        IF validate(api_key, urls)[1]
        THEN /\ DOMAIN result.stats = StatKeys
             /\ result.stats.total_urls = Len(urls)
             /\ result.stats.fetched = Cardinality(FetchSurvivors)
             /\ result.stats.analyzed = Cardinality(AnalysisSurvivors)
        ELSE result.stats = EmptyStats

\* A failed result returned after Analyzing, two of three fetches having
\* given content.
C11_Witness ==
    /\ entry = "run" /\ Returned
    /\ result.error_message = ErrAllAnalysisFailed
    /\ result.stats.total_urls = 3 /\ result.stats.fetched = 2

\* C12: no absent payload enters the next stage's input: an analysis task is
\* submitted only for a URL whose fetch gave content, the analyses handed to
\* the script request all hold a summary, and every chunk handed to the
\* assembly of the audio holds audio data of a turn whose text is not blank.
C12_NoAbsentPayloadDownstream ==
    /\ DOMAIN anaFut \subseteq FetchSurvivors
    /\ analysisCalls \subseteq FetchSurvivors
    /\ \A k \in 1..Len(fetched_data) : fetched_data[k].payload # None
    /\ \A k \in 1..Len(analyses) :
            /\ analyses[k].payload # None
            /\ analyses[k].index \in AnalysisSurvivors
    /\ \A k \in 1..Len(valid_segments) :
            Strip(script_json[valid_segments[k].index + 1].text) # << >>
    /\ \A k \in 1..Len(results) :
            /\ results[k].payload # None
            /\ \E j \in 1..Len(valid_segments) : valid_segments[j].index = results[k].index

\* A track was assembled from the one chunk left of a three-turn script: one
\* turn had a blank text and was never synthesized, one synthesis failed.
C12_Witness ==
    /\ entry = "audio" /\ pc = "done"
    /\ Len(script_json) = 3
    /\ Len(valid_segments) = 2
    /\ Len(errors) = 1
    /\ Len(results) = 1 /\ Len(full_track) = 1

\* C13: whatever the order in which the analysis tasks complete, the list of
\* analyses handed to generate_unified_script is strictly ascending by URL
\* index.
C13_AnalysesStrictlyAscending ==
    (entry = "run" /\ scriptCalls > 0) =>
        \A a, b \in 1..Len(analyses) : a < b => analyses[a].index < analyses[b].index

\* The script request was issued with three analyses, the fetch of the last
\* URL having completed first.
C13_Witness ==
    /\ entry = "run" /\ pc = "writing" /\ scriptCalls = 1
    /\ Len(analyses) = 3
    /\ fetched_data[1].index = 2

\* C14: a run that reaches Writing issues exactly one script request: none
\* before Writing, one from then on, also after the reply gave no script.
C14_OneScriptRequest ==
    entry = "run" =>
        scriptCalls = (IF StageStarted("writing") THEN 1 ELSE 0)

\* The run ended in Writing on a reply that gave no script.
C14_Witness ==
    /\ RunEnded /\ StageStarted("writing")
    /\ script_ret.none
    /\ scriptCalls = 1

\* ------------------------------------------------ smart_parse_script
ParseDone == entry = "parse" /\ pc = "done"

\* What smart_parse_script gives for the reply as it is, unwrapped and whole.
BaseParse == smart_parse_script(raw_base)

\* What json.loads gives for the cleaned text of the call.
Decoded == json_loads(clean_json_text(raw_text))

\* An element that is an object with both a speaker and a text key.
HasBothKeys(item) ==
    item.t = "dict" /\ { "speaker", "text" } \subseteq DOMAIN item.v

\* The wrapper keys of a decoded object that hold a list, in the order
\* script, dialogue, content.
ListKeys(data) ==
    LET HoldsList(key) == key \in DOMAIN data.v /\ data.v[key].t = "list"
    IN  SelectSeq(<< "script", "dialogue", "content" >>, HoldsList)

\* The elements the strict path filters: those of the decoded list, or of the
\* list under the first wrapper key that holds one; none otherwise.
Elements(data) ==
    IF data.t = "list" THEN data.v
    ELSE IF data.t = "dict" /\ ListKeys(data) # << >> THEN data.v[ListKeys(data)[1]].v
    ELSE << >>

Wrapped == Decoded.ok /\ Decoded.val.t = "dict" /\ ListKeys(Decoded.val) # << >>

\* C15 as stated: for a text that is decoded strictly into a non-empty turn
\* list, the same text in a fenced code block, whatever the tag after the
\* opening fence, gives exactly the same turn list.
C15_FencedGivesSameTurns ==
    (/\ ParseDone
     /\ variant \in { "fence", "fence_json", "fence_other" }
     /\ BaseParse.path = "strict") =>
        parse_ret = BaseParse

\* C15, amended: for a text that is decoded strictly into a non-empty turn
\* list, the same text in a fenced code block whose opening fence is untagged
\* or tagged json gives exactly the same turn list, again by the strict path.
C15_FencedJsonGivesSameTurns ==
    (/\ ParseDone
     /\ variant \in { "fence", "fence_json" }
     /\ BaseParse.path = "strict") =>
        parse_ret = BaseParse

\* A reply in a block tagged json was decoded strictly into two turns, one of
\* them spoken by neither host.
C15_Witness ==
    /\ ParseDone /\ variant = "fence_json"
    /\ parse_ret.path = "strict"
    /\ Len(parse_ret.value) = 2
    /\ parse_ret.value[2].v.speaker = JStr("Narrator")
    /\ parse_ret = BaseParse

\* C16 as stated: when the decoded value is an object with a wrapper key
\* holding a list, the first such key in the order script, dialogue, content
\* is unwrapped and the valid turns of its list are returned.
C16_WrapperTurnsReturned ==
    (ParseDone /\ Wrapped) =>
        parse_ret.value = SelectSeq(Elements(Decoded.val), HasBothKeys)

\* C16, amended: the first wrapper key in the order script, dialogue, content
\* that holds a list is unwrapped; when its list holds at least one valid turn,
\* the valid turns of that list are returned, and when it holds none, what the
\* fallback scan finds in the whole raw text is returned.
C16_WrapperTurnsOrFallback ==
    (ParseDone /\ Wrapped) =>
        LET kept == SelectSeq(Elements(Decoded.val), HasBothKeys) IN
        IF kept # << >>
        THEN parse_ret = Parsed(kept, "strict")
        ELSE parse_ret = Parsed(parse_dialogue_regex_strict(raw_text), "fallback")

\* The reply held a two-turn list under dialogue, followed by a one-turn list
\* under script: the turn under script was returned.
C16_Witness ==
    /\ ParseDone /\ variant = "plain" /\ Wrapped
    /\ ListKeys(Decoded.val) = << "script", "dialogue" >>
    /\ Len(Decoded.val.v["dialogue"].v) = 2
    /\ parse_ret = Parsed(<< RegexTurn("Host B", "yo") >>, "strict")

\* The text sent is not the reply as it is but a damaged one that json.loads
\* rejects: cut before its last bracket, led by a line of prose, or fenced
\* under a tag that is not removed.
Malformed == variant \in { "unclosed", "prose", "fence_other" }

MentionsHost(text) ==
    \E k \in 1..Len(text) : text[k] \in { S("Host A"), S("Host B") }

\* No object of the text has its text key first.
SpeakerBeforeText(text) ==
    \A k \in 1..Len(text) : text[k] = S("text") => (k > 1 /\ text[k - 1] # P("{"))

\* An object with the keys speaker and text only, spoken by a host, its text
\* a string without a quote.
StandardTurn(item) ==
    /\ DOMAIN item.v = { "speaker", "text" }
    /\ item.v.speaker \in { JStr("Host A"), JStr("Host B") }
    /\ item.v.text.t = "str" /\ item.v.text.v # EscDecoded

\* The well-formed reply holds one list, bare or under its only key, whose
\* objects are all standard turns written speaker first.
StandardReply ==
    LET data == json_loads(raw_base).val IN
    /\ data.t = "list" \/ (data.t = "dict" /\ Cardinality(DOMAIN data.v) = 1)
    /\ \A k \in 1..Len(Elements(data)) :
            Elements(data)[k].t = "dict" => StandardTurn(Elements(data)[k])
    /\ SpeakerBeforeText(raw_base)

C18_StrictKeepsObjectsWithBothKeys ==
    ParseDone =>
        LET kept == IF Decoded.ok
                    THEN SelectSeq(Elements(Decoded.val), HasBothKeys)
                    ELSE << >>
        IN  /\ parse_ret.path = "strict" => parse_ret.value = kept
            /\ kept # << >> => parse_ret.path = "strict"
            /\ parse_ret.path = "fallback" <=>
                    (raw_text # << >> /\ (~Decoded.ok \/ kept = << >>))

\* Of a decoded list of a number and a turn spoken by neither host, the turn
\* was returned.
C18_Witness ==
    /\ ParseDone /\ variant = "plain"
    /\ Decoded.ok /\ Decoded.val.t = "list" /\ Len(Decoded.val.v) = 2
    /\ Decoded.val.v[1].t = "num"
    /\ parse_ret = Parsed(<< RegexTurn("Narrator", "hi") >>, "strict")

\* C19: smart_parse_script returns an empty list for the empty text and
\* raises for no text; generate_audio_for_script, left with no chunk to
\* assemble, returns an empty track.
C19_EmptyInputsGiveEmptyOutputs ==
    /\ ParseDone =>
            /\ parse_ret.raised = ""
            /\ raw_text = << >> => parse_ret = Parsed(<< >>, "empty")
    /\ (entry = "audio" /\ pc = "done" /\ results = << >>) => full_track = << >>

\* smart_parse_script returned the empty list for the empty text.
C19_Witness ==
    /\ ParseDone /\ variant = "empty"
    /\ raw_text = << >>
    /\ parse_ret = Parsed(<< >>, "empty")

\* ------------------------------------------------ generate_audio_segment
SegmentDone == entry = "segment" /\ pc = "done"

\* The speaker matches neither host: it holds neither "host a" nor "host b"
\* nor a configured voice name, whatever the case of its letters.
NeitherHost ==
    /\ ~Contains(Lower(seg_speaker), << "h", "o", "s", "t", " ", "a" >>)
    /\ ~Contains(Lower(seg_speaker), << "h", "o", "s", "t", " ", "b" >>)
    /\ ~Contains(Lower(seg_speaker), Lower(voice_name_host_a))
    /\ ~Contains(Lower(seg_speaker), Lower(voice_name_host_b))

\* Every request sent for the turn names the voice of Host A, and one was sent.
PostedWithVoiceA ==
    /\ seg_posts # << >>
    /\ \A k \in 1..Len(seg_posts) : seg_posts[k] = voice_a_full

\* C20 as stated: a turn with a non-empty text whose speaker matches neither
\* host is synthesized with the voice of Host A: the TTS request is sent.
C20_UnknownSpeakerSynthesized ==
    (SegmentDone /\ seg_text # << >> /\ NeitherHost) => PostedWithVoiceA

\* C20, amended: a turn whose text is neither empty nor blank and whose
\* speaker matches neither host is synthesized with the voice of Host A: the
\* TTS request is sent; and generate_audio_for_script synthesizes every turn
\* whose text is neither empty nor blank, whatever its speaker.
C20_UnknownSpeakerWithTextSynthesized ==
    /\ (SegmentDone /\ Strip(seg_text) # << >> /\ NeitherHost) => PostedWithVoiceA
    /\ (entry = "audio" /\ pc \in { "merge", "done" } /\ Truthy(api_key)) =>
            \A k \in 1..Len(script_json) :
                Strip(script_json[k].text) # << >> =>
                    \E j \in 1..Len(ttsCalls) : ttsCalls[j] = k - 1

\* A turn spoken by Narrator was sent three times with the voice of Host A,
\* the default voice names being configured.
C20_Witness ==
    /\ SegmentDone
    /\ seg_speaker = << "N", "a", "r", "r", "a", "t", "o", "r" >>
    /\ seg_text = << "h", "i" >>
    /\ voice_name_host_a = << "a", "l", "e", "x" >>
    /\ NeitherHost
    /\ seg_posts = << voice_a_full, voice_a_full, voice_a_full >>
    /\ voice_a_full # voice_b_full

\* ------------------------------------------------------------ assembly
\* The turns whose chunk is in the list and decodes.
DecodedTurns(chunks) ==
    { chunks[k].index : k \in { j \in 1..Len(chunks) : chunks[j].payload = "mp3" } }

\* The turns of a set in ascending order.
Ascending(turns) ==
    CHOOSE s \in [1..Cardinality(turns) -> turns] :
        \A a, b \in 1..Cardinality(turns) : a < b => s[a] < s[b]

RECURSIVE SumMs(_)
SumMs(turns) ==
    IF turns = {} THEN 0
    ELSE LET i == CHOOSE t \in turns : TRUE
         IN  SegMs(i) + PauseMs + SumMs(turns \ { i })

\* C21: the track assembled from a list of chunks holds the decoded turns of
\* the list in ascending order of their index, and its duration is the sum of
\* theirs (each followed by the pause): both depend on the set of chunks only,
\* not on the order in which the chunks were handed over.
C21_AssemblyIgnoresArrivalOrder ==
    (entry = "assemble" /\ pc = "done") =>
        /\ full_track = Ascending(DecodedTurns(arrival))
        /\ TrackMs(full_track) = SumMs(DecodedTurns(arrival))

\* Three chunks handed over in descending order were assembled in ascending
\* order.
C21_Witness ==
    /\ entry = "assemble" /\ pc = "done"
    /\ Len(arrival) = 3
    /\ arrival[1].index = 2 /\ arrival[2].index = 1 /\ arrival[3].index = 0
    /\ full_track = << 0, 1, 2 >>

\* C22 as stated: a chunk that fails to decode during the assembly is skipped
\* without aborting the assembly, and the failure is recorded in the
\* statistics of the run, whose audio count leaves out the skipped chunks.
C22_DecodeFailureSkippedAndRecorded ==
    (/\ entry \in { "audio", "assemble" } /\ pc = "done"
     /\ \E k \in 1..Len(results) : ~Decodes(results[k].payload)) =>
        /\ full_track = Ascending(DecodedTurns(results))
        /\ "audio_segments" \in DOMAIN stats
        /\ stats.audio_segments = Len(full_track)

\* -------------------------------------------------------------- indices
Dense(indices) == indices = 0..(Cardinality(indices) - 1)

Distinct(items) ==
    \A a, b \in 1..Len(items) : a # b => items[a].index # items[b].index

\* The script positions of the turns generate_audio_for_script has a text for.
SpokenPositions ==
    { k - 1 : k \in { j \in 1..Len(script_json) :
                        /\ script_json[j].text # << >>
                        /\ \E c \in 1..Len(script_json[j].text) :
                                ~IsSpace(script_json[j].text[c]) } }

\* C23 as stated: the index values of every stage's input (fetch, analysis,
\* script synthesis, TTS) are unique and are exactly 0..k-1 for k items.
C23_StageIndicesDense ==
    /\ (entry = "run" /\ Validated) => Dense(DOMAIN fetchFut)
    /\ (entry = "run" /\ StageStarted("analyzing")) =>
            Distinct(fetched_data) /\ Dense(Indices(fetched_data))
    /\ (entry = "run" /\ scriptCalls > 0) =>
            Distinct(analyses) /\ Dense(Indices(analyses))
    /\ (entry = "audio" /\ pc # "idle" /\ Truthy(api_key)) =>
            Distinct(valid_segments) /\ Dense(Indices(valid_segments))

\* C23: the index values of every stage's input are unique.  The fetch input
\* carries exactly 0..k-1 for k URLs; every later stage keeps the original
\* index of the items that survive: the analysis input carries the indices of
\* the URLs whose fetch gave content, the script-synthesis input those of the
\* articles whose analysis gave text, and the TTS tasks the script positions
\* of the turns whose text is not blank.
C23_StageIndicesUniqueAndOriginal ==
    /\ (entry = "run" /\ Validated) => DOMAIN fetchFut = 0..(Len(urls) - 1)
    /\ (entry = "run" /\ StageStarted("analyzing")) =>
            /\ Distinct(fetched_data)
            /\ Indices(fetched_data) = FetchSurvivors
            /\ DOMAIN anaFut = FetchSurvivors
    /\ (entry = "run" /\ scriptCalls > 0) =>
            /\ Distinct(analyses)
            /\ Indices(analyses) = AnalysisSurvivors
    /\ (entry = "audio" /\ pc # "idle" /\ Truthy(api_key)) =>
            /\ Distinct(valid_segments)
            /\ Indices(valid_segments) = SpokenPositions

\* The fetch of the first of three URLs failed, and the script request was
\* issued with the analyses numbered 1 and 2.
C23_Witness ==
    /\ entry = "run" /\ scriptCalls > 0
    /\ Len(urls) = 3
    /\ Indices(analyses) = { 1, 2 }

\* ------------------------------------------------------------- requests
\* C24: no call issues more than 3 requests, whatever the responses and
\* exceptions: at most 3 GETs by fetch_content_with_jina for a URL, at most 3
\* POSTs by generate_audio_segment for a turn, at most 3 requests by
\* call_llm_api for a call.
C24_AtMostThreeRequests ==
    /\ entry = "fetch" => Len(responses) <= 3
    /\ entry = "segment" => Len(seg_posts) <= 3 /\ Len(responses) = Len(seg_posts)
    /\ entry = "llm" => Len(responses) <= 3

\* A fetch that was answered 429, then timed out, then got a 500, and
\* returned after these three requests.
C24_Witness ==
    /\ entry = "fetch" /\ pc = "done"
    /\ Len(responses) = 3
    /\ responses[1].kind = "429"
    /\ responses[2].kind = "Timeout"
    /\ responses[3].kind = "500"

\* The failures the retry is meant for: a timeout, a connection error, a 429.
Transient(kind) == kind \in { "Timeout", "ConnectionError", "429" }

CallEnded == entry \in { "fetch", "segment", "llm" } /\ pc = "done"

\* C25 as stated: in fetch, analysis, script synthesis and TTS alike, a
\* transient failure on an attempt that is not the third is followed by
\* another attempt for the same item, which becomes absent only once the
\* budget of 3 attempts is used up.
C25_TransientFailureRetried ==
    CallEnded =>
        \A k \in 1..Len(responses) :
            (Transient(responses[k].kind) /\ k < 3) => k < Len(responses)

\* C26 as stated: in fetch as well as TTS, a further attempt is issued only
\* after a timeout, a connection error, a 429 or a disguised failure (a 200
\* whose body is empty, busy or undersized); a 400, 401, 404 or any other
\* status but 429 ends the retry loop at once.
C26_OnlyTransientRetried ==
    entry \in { "fetch", "segment" } =>
        \A k \in 1..(Len(responses) - 1) :
            Transient(responses[k].kind) \/ responses[k].kind = "200"

\* The failure detail in what the call returned: the error of the tuple
\* generate_audio_segment returns; fetch_content_with_jina and call_llm_api
\* return their content or None and nothing else.
ReturnedDetail == IF entry = "segment" THEN seg_ret.error ELSE None

\* C27 as stated: in fetch_content_with_jina, call_llm_api and
\* generate_audio_segment an exception other than a timeout or a connection
\* error ends the call at once, with no further attempt, and the value
\* returned keeps the detail of that failure.
C27_UnexpectedFailureTerminalWithDetail ==
    CallEnded =>
        \A k \in 1..Len(responses) :
            responses[k].kind = "Exception" =>
                k = Len(responses) /\ ReturnedDetail = "Exception"

\* A 200 whose text is empty or holds the busy signal.
EmptyOrBusy(response) ==
    /\ response.kind = "200"
    /\ \/ response.body = << >>
       \/ "High volume" \in { response.body[k] : k \in 1..Len(response.body) }

\* C28: in fetch_content_with_jina a 200 whose body is empty or holds the busy
\* signal is a failed attempt like a transient failure: it uses up one of the
\* attempts, it is followed by another GET while attempts remain, and it is
\* never returned as content; whatever is returned other than None is the
\* non-empty body, without busy signal, of the last response.
C28_EmptyOrBusyBodyIsFailedAttempt ==
    entry = "fetch" =>
        /\ pc # "done" => attempt = Len(responses)
        /\ \A k \in 1..Len(responses) :
              (EmptyOrBusy(responses[k]) /\ pc = "done") =>
                  /\ k < 3 => k < Len(responses)
                  /\ k = Len(responses) => fetch_ret.content.none
        /\ (pc = "done" /\ ~fetch_ret.content.none) =>
              /\ fetch_ret.content.value = responses[Len(responses)].body
              /\ ~EmptyOrBusy(responses[Len(responses)])

\* An empty body, then a body with the busy signal amid other text, then the
\* article, which is returned.
C28_Witness ==
    /\ entry = "fetch" /\ pc = "done"
    /\ Len(responses) = 3
    /\ responses[1] = [kind |-> "200", body |-> << >>]
    /\ responses[2] = [kind |-> "200", body |-> << "news", "High volume", "now" >>]
    /\ fetch_ret.content = Some(<< "news" >>)

\* C29: the fetch never raises to the orchestrator.  A fetch task whose every
\* attempt failed returns (index, url, None) with the index and the URL it was
\* given; in a run, a task that failed leaves every other task to finish and
\* be collected: once the fetch stage is over every task has yielded its
\* tuple, and fetched_data holds exactly those with content, under their own
\* index and URL.
C29_FetchFailuresAreValues ==
    /\ entry = "fetch" =>
          /\ fetch_ret.kind # "raised"
          /\ pc = "done" =>
                /\ fetch_ret.kind = "returned"
                /\ fetch_ret.index = fetch_index
                /\ fetch_ret.url = UrlName(fetch_index)
                /\ fetch_ret.content.none <=>
                      /\ Len(responses) = 3
                      /\ \A k \in 1..3 :
                            responses[k].kind # "200" \/ EmptyOrBusy(responses[k])
    /\ (entry = "run" /\ result.kind # "none" /\ StageStarted("fetching")) =>
          result.kind = "returned" \/ StageStarted("writing")
    /\ FetchStageOver =>
          /\ \A i \in 0..(Len(urls) - 1) : fetchFut[i].state = "yielded"
          /\ Indices(fetched_data) = FetchSurvivors
          /\ \A k \in 1..Len(fetched_data) :
                fetched_data[k].url = UrlName(fetched_data[k].index)

\* A fetch task whose three attempts raised (a timeout, a connection error,
\* another exception) returned None for the URL numbered 1.
C29_Witness ==
    /\ entry = "fetch" /\ pc = "done"
    /\ fetch_index = 1
    /\ responses[1].kind = "Timeout"
    /\ responses[2].kind = "ConnectionError"
    /\ responses[3].kind = "Exception"
    /\ fetch_ret = FetchReturn("returned", 1, Nothing)

\* C30: generate_audio_segment never returns a body of at most 100 bytes as
\* audio.  A 200 with such a body is a failed attempt: another POST follows
\* while attempts remain, and after the third the segment fails with no audio
\* data; whatever audio data is returned is the body, longer than 100 bytes,
\* of the last response.
C30_SmallBodyNeverReturnedAsAudio ==
    (entry = "segment" /\ pc = "done") =>
        /\ \A k \in 1..Len(responses) :
              (responses[k].kind = "200" /\ Len(responses[k].body) <= 100) =>
                  /\ k < 3 => k < Len(responses)
                  /\ k = Len(responses) =>
                        seg_ret.audio_data.none /\ seg_ret.error # None
        /\ ~seg_ret.audio_data.none =>
              /\ Len(seg_ret.audio_data.value) > 100
              /\ seg_ret.audio_data.value = responses[Len(responses)].body
              /\ seg_ret.error = None

\* A body of exactly 100 bytes, then an empty body, then a body of 101 bytes,
\* which is returned.
C30_Witness ==
    /\ entry = "segment" /\ pc = "done"
    /\ Len(responses) = 3
    /\ responses[1].kind = "200" /\ Len(responses[1].body) = 100
    /\ responses[2].kind = "200" /\ Len(responses[2].body) = 0
    /\ ~seg_ret.audio_data.none /\ Len(seg_ret.audio_data.value) = 101

\* ---------------------------------------------------------- worker pools
InFlight(futs) == { i \in DOMAIN futs : futs[i].state = "running" }

\* A task is taken up by a worker from the queue only: one that is running,
\* has finished or was collected is not started again.
StartedFromQueue(old, new) ==
    \A i \in DOMAIN old \cap DOMAIN new :
        (new[i].state = "running" /\ old[i].state # "running") =>
            old[i].state = "pending"

NeverRequeued(old, new) ==
    \A i \in DOMAIN old \cap DOMAIN new :
        new[i].state = "pending" => old[i].state = "pending"

\* C31: at no time do more fetch tasks run than max_workers_jina, nor more
\* analysis tasks than max_workers_llm; every submitted task is executed
\* exactly once: it is started from the queue, never started again nor queued
\* again, and has been collected when its stage is over.  The TTS calls of
\* generate_audio_for_script are made one after the other, one call for each
\* turn with a text.
C31_PoolBoundAndExactlyOnce ==
    /\ [](/\ Cardinality(InFlight(fetchFut)) <= max_workers_jina
          /\ Cardinality(InFlight(anaFut)) <= max_workers_llm
          /\ FetchStageOver => \A i \in DOMAIN fetchFut : fetchFut[i].state = "yielded"
          /\ AnalysisStageOver => \A i \in DOMAIN anaFut : anaFut[i].state = "yielded"
          /\ entry = "audio" =>
                /\ \A a, b \in 1..Len(ttsCalls) : a # b => ttsCalls[a] # ttsCalls[b]
                /\ Len(ttsCalls) = nextSeg - 1
                /\ pc \in { "merge", "done" } =>
                      { ttsCalls[k] : k \in 1..Len(ttsCalls) } = Indices(valid_segments))
    /\ [][/\ StartedFromQueue(fetchFut, fetchFut') /\ NeverRequeued(fetchFut, fetchFut')
          /\ StartedFromQueue(anaFut, anaFut') /\ NeverRequeued(anaFut, anaFut')
          /\ Len(ttsCalls') <= Len(ttsCalls) + 1]_vars

\* Two of three fetch tasks are running on a pool of two workers, the third
\* is queued.
C31_Witness ==
    /\ entry = "run" /\ pc = "fetching"
    /\ max_workers_jina = 2
    /\ Cardinality(InFlight(fetchFut)) = 2
    /\ \E i \in DOMAIN fetchFut : fetchFut[i].state = "pending"

\* ---------------------------------------------------------------- logging
InLog == { t \in Threads : log_at[t] # "idle" }

Appending == { t \in Threads : log_at[t] = "append" }

\* No task starts or finishes in the step: it is a step of the orchestrator.
NoWorkerStep(old, new) ==
    \A i \in DOMAIN old \cap DOMAIN new :
        new[i].state = "running" <=> old[i].state = "running"

\* C32 as stated, for the log: while the workers of a parallel stage and the
\* orchestrator are logging, no two invocations of the registered log
\* callback through PodcastPipeline.log overlap in time.
C32_LogInvocationsNeverOverlap ==
    entry = "log" => Cardinality(InLog) <= 1

\* C32: the writes to the list of log messages are serialized: no two threads
\* are in the append of log_callback at once, the one that is holds logs_lock,
\* and the list keeps every thread's messages in the order logged (the
\* invocations of PodcastPipeline.log and its print may overlap).  The result
\* lists and the stats of a run change only in steps of the orchestrator,
\* never in one in which a worker starts or finishes a task.
C32_LogAppendsSerialized ==
    /\ [](entry = "log" =>
            /\ Cardinality(Appending) <= 1
            /\ Appending = logs_lock
            /\ \A a, b \in 1..Len(logs) :
                  (a < b /\ logs[a].thread = logs[b].thread) => logs[a].n < logs[b].n)
    /\ [][(entry = "run" /\ << fetched_data, analyses, stats >>' # << fetched_data, analyses, stats >>)
            => NoWorkerStep(fetchFut, fetchFut') /\ NoWorkerStep(anaFut, anaFut')]_vars

\* A worker is appending under the lock while the orchestrator waits for the
\* lock in log_callback and another worker is printing in log.
C32_Witness ==
    /\ entry = "log"
    /\ log_at[1] = "append" /\ logs_lock = { 1 }
    /\ log_at[0] = "callback"
    /\ log_at[2] = "print"

\* ------------------------------------------------------------ termination
\* C33 as stated: given that every outbound request returns or times out,
\* every run of PodcastPipeline.run eventually ends in Complete or Failed,
\* that is, returns its PipelineResult.
C33_RunEndsCompleteOrFailed ==
    (entry = "run") ~> (pc = "done" /\ result.kind = "returned")

\* --------------------------------------------------------------- progress
\* The progress events of a stage, in the order emitted; an event is
\* (stage, numerator, denominator).
EventsOf(stage) == SelectSeq(progress, LAMBDA e : e[1] = stage)

\* A stage is over once a later stage has started or the run has ended.
StageIsOver(stage) ==
    /\ EventsOf(stage) # << >>
    /\ pc = "done" \/ progress[Len(progress)][1] # stage

\* C34 as stated: every progress event of a run has a fraction in [0,1];
\* within a stage the fractions are non-decreasing, the first is 0.0 and, the
\* stage being over, the last is 1.0; (complete, 1.0) is emitted only in runs
\* that return success = true.
C34_ProgressFractionsPerStage ==
    entry = "run" =>
        /\ \A k \in 1..Len(progress) :
              progress[k][3] > 0 /\ 0 <= progress[k][2] /\ progress[k][2] <= progress[k][3]
        /\ \A a, b \in 1..Len(progress) :
              (a < b /\ progress[a][1] = progress[b][1]) =>
                  progress[a][2] * progress[b][3] <= progress[b][2] * progress[a][3]
        /\ \A stage \in { progress[k][1] : k \in 1..Len(progress) } :
              /\ EventsOf(stage)[1][2] = 0
              /\ StageIsOver(stage) =>
                    LET last == EventsOf(stage)[Len(EventsOf(stage))]
                    IN  last[2] = last[3]
        /\ (\E k \in 1..Len(progress) : progress[k][1] = "complete") =>
              (pc = "done" => Returned /\ result.success)

\* ------------------------------------------------------------------ stats
\* C35: from the moment the stats of a run exist, fetched is the number of
\* fetch results collected and analyzed the number of analyses collected,
\* fetched <= total_urls, analyzed <= fetched, audio_segments <= script_lines
\* and total_urls is the number of URLs; no counter ever decreases.
C35_StatsConsistent ==
    /\ [](Validated =>
            /\ stats.total_urls = Len(urls)
            /\ stats.fetched = Len(fetched_data)
            /\ stats.analyzed = Len(analyses)
            /\ stats.fetched <= stats.total_urls
            /\ stats.analyzed <= stats.fetched
            /\ stats.audio_segments <= stats.script_lines)
    /\ [][Validated => \A key \in StatKeys : stats'[key] >= stats[key]]_vars

\* Of three URLs two were fetched and one of the two articles was analyzed
\* when the run ended.
C35_Witness ==
    /\ RunEnded /\ Validated
    /\ stats.total_urls = 3 /\ stats.fetched = 2 /\ stats.analyzed = 1
    /\ Len(fetched_data) = 2 /\ Len(analyses) = 1

\* ------------------------------------------------------------------ voices
\* C36 as stated: whatever the two configured voice names, a turn whose
\* speaker is "Host B" in any letter case is synthesized with the voice of
\* Host B and one whose speaker is "Host A" with the voice of Host A; the test
\* for Host A never captures a turn of Host B.
C36_HostTurnsGetOwnVoice ==
    (SegmentDone /\ seg_posts # << >>) =>
        /\ Lower(seg_speaker) = << "h", "o", "s", "t", " ", "b" >> =>
              \A k \in 1..Len(seg_posts) : seg_posts[k] = voice_b_full
        /\ Lower(seg_speaker) = << "h", "o", "s", "t", " ", "a" >> =>
              \A k \in 1..Len(seg_posts) : seg_posts[k] = voice_a_full

\* ---------------------------------------------------------------- storage
\* C37 as stated: any two calls of save_podcast, also two within the same
\* second of the clock or from concurrent sessions, obtain distinct podcast
\* IDs, so that no save targets the files or the metadata row of another.
C37_PodcastIdsDistinct ==
    entry = "save" =>
        \A a, b \in 1..Len(saved) : a # b => saved[a] # saved[b]

====
